---- MODULE Spec2Model ----
(***************************************************************************)
(* Chzzk-Rekoda: the recording supervisor of src/chzzk_record.py.          *)
(*                                                                         *)
(* manage_recording_tasks (the reconciliation loop), record_stream (one    *)
(* asyncio task per channel), read_stream (the progress reader of one      *)
(* session), the two subprocesses of a session (streamlink, ffmpeg), the   *)
(* shared channel_progress table and the shutdown_event flag.              *)
(*                                                                         *)
(* asyncio is single-threaded and cooperative: a coroutine runs from one   *)
(* await that really suspends to the next without interleaving, so every   *)
(* action below is the code between two suspension points.  Acquiring      *)
(* channel_progress_lock never suspends (no holder awaits while holding    *)
(* it), so "async with channel_progress_lock" is part of the running step. *)
(* Task.cancel() only requests cancellation: CancelledError is thrown into *)
(* the task at the await it is suspended on, when the task next runs.      *)
(***************************************************************************)
EXTENDS Integers, Sequences, FiniteSets, TLC

\* ------------------------------------------------------------------ bounds
MaxTasks == 2        \* record_stream tasks created in one run
MaxName == 1         \* values of a channel's other config fields: 0..MaxName
MaxCalls == 5        \* calls of _fetch_playlist by one HLS worker
MaxParams == 3       \* parameters in the query string of a stream URL
MaxClock == 2        \* seconds the wall clock advances in a run
MaxText == 2         \* characters in a channel name and in a live title
MaxStem == 300       \* characters before the extension of a long file name
MaxExt == 300        \* characters of a long extension
MaxCycles == 4       \* progress cycles that the read_stream tasks complete in a run
MaxFrac == 3         \* digits in the fraction of an out_time
MaxRecords == 2      \* records in the channel list of a pass of the manager
MaxSessions == 3     \* sessions that one channel records in a run

ChanOrder == <<"A", "B">>      \* channel ids, in the order of channels.json
Chan == {ChanOrder[i] : i \in 1..Len(ChanOrder)}

\* the channels that broadcast in the runs of Spec: get_live_info can return
\* OPEN for them; channel A stays offline, its task only ever polls
Broadcasting == {"B"}

NoTask == 0

\* descriptor numbers free for pipes: every task can hold one pipe
Fds == 1..(2 * MaxTasks)
NoEntry == [owner |-> NoTask, writer |-> NoTask]
Absent == [present |-> FALSE, active |-> "off", name |-> 0]

VARIABLES
    shutdown_event,    \* the process-wide shutdown flag
    channels,          \* channels.json as the next load_settings reads it
    active_tasks,      \* manage_recording_tasks: channel id -> task (NoTask: no key)
    tasks,             \* every record_stream task created so far
    channel_progress,  \* channel id -> snapshot entry (NoEntry: no key)
    mpc,               \* where manage_recording_tasks is suspended
    fds,               \* the process's descriptor table: number -> task whose
                       \* os.pipe() opened it (NoTask: the number is free)
    api_answers,       \* channel id -> the answers the live-detail API gives
                       \* to polls of the channel during the run
    channels_ok,       \* channels.json exists, can be read and holds a JSON
                       \* list (channels is then that list)
    worker,            \* plugin/chzzk.py: the HLS worker of a streamlink process
                       \* and its current call of _fetch_playlist
    stream,            \* plugin/chzzk.py: a ChzzkHLSStream and the wall clock
    out_file,          \* record_stream's output file names, and a call of shorten_filename
    readers,           \* read_stream: speed_samples, each channel's reader and its snapshot fields
    manager,           \* manage_recording_tasks: one pass over a channel list as channels.json holds it
    channel_progress_lock,  \* line 43: who holds the asyncio.Lock of the table (Free: nobody)
    display            \* display_progress: where it is suspended and the channels of the panels it built

vars == <<shutdown_event, channels, active_tasks, tasks, channel_progress, mpc,
          fds, api_answers, channels_ok, worker,
          stream,
          out_file,
          readers,
          manager,
          channel_progress_lock,
          display>>

TaskIds == 1..Len(tasks)

\* a subprocess handle: "run" and "killed" (kill() sent, not yet gone) have
\* returncode None; "off" is no process: the variable is None or the
\* returncode is set, which every test of the code treats alike
\* ("p and p.returncode is None")
Live == {"run", "killed"}

\* ---------------------------------------------------------------- helpers
Done(t) == tasks[t].pc = "done"

\* Task.cancel(): a request; a finished task ignores it
CancelRec(r) == IF r.pc = "done" THEN r ELSE [r EXCEPT !.cancel = "req"]

\* a new task object running record_stream(channel, ...), suspended at
\* "await asyncio.sleep(delay)"
NewTask(c) ==
    [ch |-> c, name |-> channels[c].name, pc |-> "delay", cancel |-> "no",
     sp |-> "off", fp |-> "off", rd |-> "off",
     rs |-> FALSE, sess |-> FALSE, file |-> "absent", rp |-> 0, wp |-> 0,
     status |-> "none"]

\* ------------------------------------------------- record_stream, pieces
\* plugin/chzzk.py, ChzzkHLSStreamWorker: no call of _fetch_playlist is in
\* progress; hist lists what the current call has done so far
IdleWorker == [pc |-> "idle", attempt |-> 0, hist |-> <<>>, result |-> "none", calls |-> 0]

\* plugin/chzzk.py, ChzzkHLSStream: no stream object exists
NoStream == [pc |-> "none"]

\* no file name is being computed
NoFile == [pc |-> "none"]

\* no pass over a channel list is being followed
NoManager == [pc |-> "none"]

\* line 43: the lock is not held
Free == "free"

\* display_progress is not followed
NoDisplay == [pc |-> "none"]

\* One step of a task yields outcomes [rec, prog]: the task's record at its
\* next suspension point and what the step did to channel_progress[ch]
\* ("keep", "put": lines 723-731, "pop": lines 771-772 and 816-817).
Out(r, p) == [rec |-> r, prog |-> p]

\* the coroutine ends: it returned, CancelledError left it, or rename raised
TaskEnd(r) == [r EXCEPT !.pc = "done", !.sess = FALSE, !.rs = FALSE, !.status = "none"]

\* fault: the finally block removes the temporary file instead of renaming it
FinallyRename_Unlink(r) ==
    {Out(TaskEnd([r EXCEPT !.file = "absent"]), "pop")}

\* lines 811-817: rename the temporary file when recording_started, then
\* pop the snapshot entry; a rename that raises skips the pop
FinallyRename(r) ==
    IF r.rs /\ r.file = "part"
    THEN {Out(TaskEnd([r EXCEPT !.file = "final"]), "pop"), Out(TaskEnd(r), "keep")}
    ELSE {Out(TaskEnd(r), "pop")}

\* lines 808-810: kill ffmpeg when its returncode is None and await its exit
FinallyKillF(r) ==
    IF r.fp \in Live
    THEN {Out([r EXCEPT !.fp = "killed", !.pc = "fin_f"], "keep")}
    ELSE FinallyRename(r)

\* lines 804-807: the outer finally; kill streamlink when its returncode is
\* None and await its exit
Finally(r) ==
    IF r.sp \in Live
    THEN {Out([r EXCEPT !.sp = "killed", !.pc = "fin_s"], "keep")}
    ELSE FinallyKillF(r)

\* fault: the exception is not caught at line 785 and ends the task
Handler_Uncaught(r) == [r EXCEPT !.rs = FALSE, !.sess = FALSE, !.pc = "done"]

\* lines 785-791: except Exception; the task goes on to the wait of line 800
Handler(r) == [r EXCEPT !.rs = FALSE, !.sess = FALSE, !.pc = "epwait"]

\* lines 636-642: kill a still running ffmpeg of an earlier episode, then
\* os.pipe() and the spawn of streamlink
KillOldF(r) ==
    IF r.fp \in Live
    THEN [r EXCEPT !.fp = "killed", !.pc = "kill_f"]
    ELSE [r EXCEPT !.pc = "spawn_s"]

\* lines 631-634: kill a still running streamlink of an earlier episode
KillOldS(r) ==
    IF r.sp \in Live
    THEN [r EXCEPT !.sp = "killed", !.pc = "kill_s"]
    ELSE KillOldF(r)

\* lines 608-620: temp_output_path and final_output_path are bound to the
\* paths of the new episode, where no file exists yet; r.file is the file at
\* the paths the two variables name (a file at the paths of an earlier
\* episode stays on disk and is no longer named by the task)
Rebind(r) == [r EXCEPT !.file = "absent"]

\* lines 608-639 after a poll returned OPEN: mkdir (may raise), then
\* recording_started = True and the kills of old processes
Prepare(r) ==
    {Out(Handler(Rebind(r)), "keep"),
     Out(KillOldS([Rebind(r) EXCEPT !.rs = TRUE]), "keep")}

\* lines 748-751: the shutdown branch after ffmpeg has exited
ShutKillS(r) ==
    IF r.sp \in Live
    THEN {Out([r EXCEPT !.sp = "killed", !.pc = "shut_s"], "keep")}
    ELSE Finally(r)

\* lines 744-747: the shutdown branch, ffmpeg first
ShutKillF(r) ==
    IF r.fp \in Live
    THEN {Out([r EXCEPT !.fp = "killed", !.pc = "shut_f"], "keep")}
    ELSE ShutKillS(r)

\* line 589: the task awaits get_live_info; status and live_info are rebound
\* by its result before they are read again, so the model forgets the old
\* status here
AwaitPoll(r) == [r EXCEPT !.pc = "poll", !.status = "none"]

\* the answers of the live-detail API to one poll of channel c: no answer
\* (transport failure), an HTTP error status, a body that is not the
\* expected JSON, or a body whose content.status is BLOCK, CLOSE, OPEN or
\* another string ("OTHER"); the last two carry a manifest
Responses(c) == api_answers[c]

\* what the API can answer for a channel that is offline, and for one that
\* broadcasts
OfflineAnswers == {"transport_error", "http_error", "malformed", "BLOCK", "CLOSE"}
LiveAnswers == OfflineAnswers \cup {"OPEN", "OTHER"}

\* fault: raise_for_status() of line 338 is not caught
get_live_info_Raises(resp) ==
    IF resp = "http_error"
    THEN [raised |-> TRUE, status |-> "", manifest |-> FALSE]
    ELSE IF resp \in {"transport_error", "malformed", "BLOCK"}
    THEN [raised |-> FALSE, status |-> IF resp = "BLOCK" THEN "BLOCK" ELSE "",
          manifest |-> FALSE]
    ELSE [raised |-> FALSE, status |-> resp, manifest |-> resp \in {"OPEN", "OTHER"}]

\* lines 334-361: get_live_info returns (status, content); raised tells
\* whether an exception leaves the function
get_live_info(resp) ==
    IF resp \in {"transport_error", "http_error", "malformed"}
    THEN [raised |-> FALSE, status |-> "", manifest |-> FALSE]
    ELSE IF resp = "BLOCK"
    THEN [raised |-> FALSE, status |-> "BLOCK", manifest |-> FALSE]
    ELSE [raised |-> FALSE, status |-> resp, manifest |-> resp \in {"OPEN", "OTHER"}]

\* lines 582, 588: "while not shutdown_event.is_set()" is entered, the task
\* awaits get_session_cookies / get_live_info; otherwise the loop is left
LoopTop(r) ==
    IF shutdown_event THEN Finally(r) ELSE {Out(AwaitPoll(r), "keep")}

\* the awaits inside "try: ... finally:" of lines 643-780, where read_pipe
\* and write_pipe are bound
PipeRegion == {"spawn_s", "spawn_f", "wait", "shut_f", "shut_s", "swait"}

\* os.close(fd), and os.close of lines 776-779 with OSError passed over: the
\* number is free afterwards, whoever opened it
CloseFds(tbl, S) == [f \in Fds |-> IF f \in S THEN NoTask ELSE tbl[f]]

\* the n lowest free descriptor numbers (the kernel hands out the lowest)
FreeFds(tbl) == {f \in Fds : tbl[f] = NoTask}
LowestFree(tbl, n) ==
    {f \in FreeFds(tbl) : Cardinality({g \in FreeFds(tbl) : g < f}) < n}

\* fault: the read end is not closed after the spawn of ffmpeg (line 720)
PipeStep_KeepsReadEnd(t, rec) ==
    LET r == tasks[t]
        pair == LowestFree(fds, 2)
        lo == CHOOSE f \in pair : \A g \in pair : f <= g
        hi == CHOOSE f \in pair : \A g \in pair : g <= f
    IN
    IF rec.pc = "spawn_s" /\ r.pc # "spawn_s"
    THEN IF Cardinality(pair) < 2
         THEN [rec |-> Handler(rec), tbl |-> fds]
         ELSE [rec |-> [rec EXCEPT !.rp = lo, !.wp = hi],
               tbl |-> [f \in Fds |-> IF f \in pair THEN t ELSE fds[f]]]
    ELSE IF r.pc = "spawn_s" /\ rec.pc = "spawn_f"
    THEN [rec |-> rec, tbl |-> CloseFds(fds, {r.wp})]
    ELSE IF r.pc \in PipeRegion /\ rec.pc \notin PipeRegion
    THEN [rec |-> [rec EXCEPT !.rp = 0, !.wp = 0], tbl |-> CloseFds(fds, {r.rp, r.wp})]
    ELSE [rec |-> rec, tbl |-> fds]

\* the step's effect on the task's pipe: line 642 os.pipe() on reaching the
\* spawn of streamlink (OSError when the table is full: line 785), line 680
\* after streamlink is spawned, line 720 after ffmpeg is spawned, lines
\* 774-780 on leaving the try block in any way
PipeStep(t, rec) ==
    LET r == tasks[t]
        pair == LowestFree(fds, 2)
        lo == CHOOSE f \in pair : \A g \in pair : f <= g
        hi == CHOOSE f \in pair : \A g \in pair : g <= f
    IN
    IF rec.pc = "spawn_s" /\ r.pc # "spawn_s"
    THEN IF Cardinality(pair) < 2
         THEN [rec |-> Handler(rec), tbl |-> fds]
         ELSE [rec |-> [rec EXCEPT !.rp = lo, !.wp = hi],
               tbl |-> [f \in Fds |-> IF f \in pair THEN t ELSE fds[f]]]
    ELSE IF r.pc = "spawn_s" /\ rec.pc = "spawn_f"
    THEN [rec |-> rec, tbl |-> CloseFds(fds, {r.wp})]
    ELSE IF r.pc = "spawn_f" /\ rec.pc = "wait"
    THEN [rec |-> rec, tbl |-> CloseFds(fds, {r.rp})]
    ELSE IF r.pc \in PipeRegion /\ rec.pc \notin PipeRegion
    THEN [rec |-> [rec EXCEPT !.rp = 0, !.wp = 0], tbl |-> CloseFds(fds, {r.rp, r.wp})]
    ELSE [rec |-> rec, tbl |-> fds]

\* the task's step takes effect; a step that puts or pops the entry does so
\* inside "async with channel_progress_lock" (lines 723, 771, 816), which
\* is entered without suspending when the lock is free and left before the
\* next await; a step that found the lock held would wait for it
Commit(t, o) ==
    /\ o.prog # "keep" => channel_progress_lock = Free
    /\ tasks' = [tasks EXCEPT ![t] = PipeStep(t, o.rec).rec]
    /\ fds' = PipeStep(t, o.rec).tbl
    /\ channel_progress' =
         CASE o.prog = "put" ->
                [channel_progress EXCEPT ![tasks[t].ch] = [owner |-> t, writer |-> t]]
           [] o.prog = "pop" -> [channel_progress EXCEPT ![tasks[t].ch] = NoEntry]
           [] OTHER -> channel_progress
    /\ UNCHANGED <<shutdown_event, channels, active_tasks, mpc, api_answers, channels_ok, worker, stream, out_file, readers, manager, channel_progress_lock, display>>

\* the task is resumed at its await and no cancellation is pending
Resumes(t, at) ==
    /\ t \in TaskIds
    /\ tasks[t].pc = at
    /\ tasks[t].cancel # "req"

\* ------------------------------------------------ record_stream, actions
\* line 571 returns: the start delay is over.  The task was created for a
\* channel whose active flag is "on" (line 872), so line 573 does not return
DelayDone(t) ==
    /\ Resumes(t, "delay")
    /\ \E o \in LoopTop(tasks[t]) : Commit(t, o)

\* fault: the poll loop is left on every status but BLOCK
Poll_LeavesOnClose(t) ==
    /\ Resumes(t, "poll")
    /\ \E resp \in Responses(tasks[t].ch) :
         LET res == get_live_info(resp)
             r == [tasks[t] EXCEPT !.status = res.status]
         IN
         \E o \in (IF res.status \in {"BLOCK", ""}
                   THEN {Out([r EXCEPT !.pc = "pollwait"], "keep")}
                   ELSE IF shutdown_event THEN Finally(r)
                   ELSE Prepare(r)) :
            Commit(t, o)

\* lines 587-606: get_live_info is over; only the status OPEN leaves the
\* poll loop (line 592); an exception would reach line 785
Poll(t) ==
    /\ Resumes(t, "poll")
    /\ \E resp \in Responses(tasks[t].ch) :
         LET res == get_live_info(resp)
             r == [tasks[t] EXCEPT !.status = res.status]
         IN
         \E o \in (IF res.raised THEN {Out(Handler(tasks[t]), "keep")}
                   ELSE IF res.status # "OPEN"
                   THEN {Out([r EXCEPT !.pc = "pollwait"], "keep")}
                   ELSE IF shutdown_event THEN Finally(r)
                   ELSE Prepare(r)) :
            Commit(t, o)

\* lines 599-603: the poll interval expired
PollWaitTimeout(t) ==
    /\ Resumes(t, "pollwait")
    /\ ~shutdown_event
    /\ Commit(t, Out(AwaitPoll(tasks[t]), "keep"))

\* lines 599-606: shutdown_event.wait() returned; both loops are left
PollWaitShutdown(t) ==
    /\ Resumes(t, "pollwait")
    /\ shutdown_event
    /\ \E o \in Finally(tasks[t]) : Commit(t, o)

\* line 633: the old streamlink has exited
KillOldSDone(t) ==
    /\ Resumes(t, "kill_s")
    /\ tasks[t].sp = "off"
    /\ Commit(t, Out(KillOldF(tasks[t]), "keep"))

\* line 638: the old ffmpeg has exited
KillOldFDone(t) ==
    /\ Resumes(t, "kill_f")
    /\ tasks[t].fp = "off"
    /\ Commit(t, Out([tasks[t] EXCEPT !.pc = "spawn_s"], "keep"))

\* lines 675-714: create_subprocess_exec(streamlink) returns or raises.
\* When it returned, os.close(write_pipe) of line 680 raises OSError if the
\* number is no longer open, and the fork of ffmpeg (line 714, before its
\* first suspension) fails when read_pipe is no longer open: line 785
\* catches both, with streamlink running
SpawnStreamlink(t) ==
    /\ Resumes(t, "spawn_s")
    /\ \E ok \in BOOLEAN :
         Commit(t, Out(IF ~ok THEN Handler(tasks[t])
                       ELSE IF fds[tasks[t].wp] = NoTask \/ fds[tasks[t].rp] = NoTask
                       THEN Handler([tasks[t] EXCEPT !.sp = "run"])
                       ELSE [tasks[t] EXCEPT !.sp = "run", !.pc = "spawn_f"], "keep"))

\* lines 714-741: create_subprocess_exec(ffmpeg) returns (the entry is
\* created, read_stream is started, the task waits) or raises.  When it
\* returned, os.close(read_pipe) of line 720 raises OSError if the number is
\* no longer open: line 785 catches it, with both processes running
SpawnFfmpeg(t) ==
    /\ Resumes(t, "spawn_f")
    /\ \/ Commit(t, IF fds[tasks[t].rp] = NoTask
                    THEN Out(Handler([tasks[t] EXCEPT !.fp = "run"]), "keep")
                    ELSE Out([tasks[t] EXCEPT !.fp = "run", !.rd = "run",
                                              !.sess = TRUE, !.pc = "wait"], "put"))
       \/ Commit(t, Out(Handler(tasks[t]), "keep"))

\* fault: record_stream returns once the episode is finalized
AfterStream_Returns(r) ==
    LET e == TaskEnd(r) IN
    IF e.file = "part"
    THEN {Out([e EXCEPT !.file = "final"], "pop"), Out(e, "keep")}
    ELSE {Out(e, "pop")}

\* lines 761-772: streamlink's returncode is set; rename the temporary file
\* (may raise: line 785) and pop the snapshot entry
AfterStream(r) ==
    LET e == [r EXCEPT !.sess = FALSE, !.pc = "epwait"] IN
    IF e.file = "part"
    THEN {Out([e EXCEPT !.file = "final"], "pop"), Out(Handler(e), "keep")}
    ELSE {Out(e, "pop")}

\* lines 753-760: ffmpeg is over, recording_started is reset, and the task
\* awaits streamlink's exit; wait() of a process whose returncode is set
\* returns without suspending
AwaitStream(r) ==
    LET e == [r EXCEPT !.rs = FALSE] IN
    IF e.sp \in Live THEN {Out([e EXCEPT !.pc = "swait"], "keep")} ELSE AfterStream(e)

\* lines 738-760: asyncio.wait returns when read_stream or ffmpeg.wait() is done
WaitWake(t) ==
    /\ Resumes(t, "wait")
    /\ tasks[t].rd = "off" \/ tasks[t].fp = "off"
    /\ \E o \in (IF shutdown_event THEN ShutKillF(tasks[t]) ELSE AwaitStream(tasks[t])) :
         Commit(t, o)

\* line 747: the killed ffmpeg has exited
ShutFDone(t) ==
    /\ Resumes(t, "shut_f")
    /\ tasks[t].fp = "off"
    /\ \E o \in ShutKillS(tasks[t]) : Commit(t, o)

\* line 750: the killed streamlink has exited
ShutSDone(t) ==
    /\ Resumes(t, "shut_s")
    /\ tasks[t].sp = "off"
    /\ \E o \in Finally(tasks[t]) : Commit(t, o)

\* line 760: streamlink has exited and the task is resumed
StreamWaitDone(t) ==
    /\ Resumes(t, "swait")
    /\ tasks[t].sp = "off"
    /\ \E o \in AfterStream(tasks[t]) : Commit(t, o)

\* lines 799-802: the poll interval between two episodes expired
EpWaitTimeout(t) ==
    /\ Resumes(t, "epwait")
    /\ ~shutdown_event
    /\ Commit(t, Out(AwaitPoll(tasks[t]), "keep"))

\* lines 800, 582: shutdown_event.wait() returned and the loop is left
EpWaitShutdown(t) ==
    /\ Resumes(t, "epwait")
    /\ shutdown_event
    /\ \E o \in Finally(tasks[t]) : Commit(t, o)

\* line 807: the streamlink killed in the finally block has exited
FinSDone(t) ==
    /\ Resumes(t, "fin_s")
    /\ tasks[t].sp = "off"
    /\ \E o \in FinallyKillF(tasks[t]) : Commit(t, o)

\* line 810: the ffmpeg killed in the finally block has exited
FinFDone(t) ==
    /\ Resumes(t, "fin_f")
    /\ tasks[t].fp = "off"
    /\ \E o \in FinallyRename(tasks[t]) : Commit(t, o)

\* the awaits inside the inner try of lines 586-781
InnerAwaits == {"poll", "pollwait", "kill_s", "kill_f", "spawn_s", "spawn_f",
                "wait", "shut_f", "shut_s", "swait"}

\* CancelledError thrown at the await the task is suspended on: before the
\* outer try (line 571) it ends the task; inside the inner try line 782
\* catches it and the finally block runs; at line 800 the finally block runs
\* and the error leaves the task; inside the finally block it ends the block
Cancelled(r) ==
    LET c == [r EXCEPT !.cancel = "thrown"] IN
    CASE r.pc = "delay" -> {Out(TaskEnd(c), "keep")}
      [] r.pc \in InnerAwaits \cup {"epwait"} -> Finally(c)
      [] OTHER -> {Out(TaskEnd(c), "keep")}

DeliverCancel(t) ==
    /\ t \in TaskIds
    /\ tasks[t].cancel = "req"
    /\ ~Done(t)
    /\ \E o \in Cancelled(tasks[t]) : Commit(t, o)

\* ------------------------------------------- subprocesses and read_stream
SetTask(t, r) ==
    /\ tasks' = [tasks EXCEPT ![t] = r]
    /\ UNCHANGED <<shutdown_event, channels, active_tasks, channel_progress, mpc, fds, api_answers, channels_ok, worker, stream, out_file, readers, manager, channel_progress_lock, display>>

\* streamlink exits on its own (the stream ended, an error)
StreamlinkExits(t) ==
    /\ t \in TaskIds /\ tasks[t].sp = "run"
    /\ SetTask(t, [tasks[t] EXCEPT !.sp = "off"])

\* ffmpeg exits on its own (end of input, an error); its stderr ends with
\* it, which ends read_stream (lines 465-469)
FfmpegExits(t) ==
    /\ t \in TaskIds /\ tasks[t].fp = "run"
    /\ SetTask(t, [tasks[t] EXCEPT !.fp = "off", !.rd = "off"])

\* a killed streamlink is gone: its returncode is set
StreamlinkReaped(t) ==
    /\ t \in TaskIds /\ tasks[t].sp = "killed"
    /\ SetTask(t, [tasks[t] EXCEPT !.sp = "off"])

\* a killed ffmpeg is gone: its returncode is set and its stderr has ended
FfmpegReaped(t) ==
    /\ t \in TaskIds /\ tasks[t].fp = "killed"
    /\ SetTask(t, [tasks[t] EXCEPT !.fp = "off", !.rd = "off"])

\* ffmpeg opens its output (line 711): the .part file exists from now on
FfmpegWritesOutput(t) ==
    /\ t \in TaskIds /\ tasks[t].fp = "run" /\ tasks[t].file = "absent"
    /\ SetTask(t, [tasks[t] EXCEPT !.file = "part"])

\* fault: read_stream stores its progress without the test of line 523
ReadProgress_NoTest(t) ==
    /\ t \in TaskIds /\ tasks[t].rd = "run"
    /\ channel_progress_lock = Free
    /\ channel_progress' =
         IF channel_progress[tasks[t].ch] # NoEntry
         THEN [channel_progress EXCEPT ![tasks[t].ch].writer = t]
         ELSE [channel_progress EXCEPT ![tasks[t].ch] = [owner |-> t, writer |-> t]]
    /\ UNCHANGED <<shutdown_event, channels, active_tasks, tasks, mpc, fds, api_answers, channels_ok, worker, stream, out_file, readers, manager, channel_progress_lock, display>>

\* read_stream, lines 481-535: one progress cycle is complete; the entry of
\* the channel is updated when it exists, inside "async with
\* channel_progress_lock" (line 523)
ReadProgress(t) ==
    /\ t \in TaskIds /\ tasks[t].rd = "run"
    /\ channel_progress_lock = Free
    /\ channel_progress' =
         IF channel_progress[tasks[t].ch] # NoEntry
         THEN [channel_progress EXCEPT ![tasks[t].ch].writer = t]
         ELSE channel_progress
    /\ UNCHANGED <<shutdown_event, channels, active_tasks, tasks, mpc, fds, api_answers, channels_ok, worker, stream, out_file, readers, manager, channel_progress_lock, display>>

\* read_stream, lines 536-538: readline raised while ffmpeg is running
ReadError(t) ==
    /\ t \in TaskIds /\ tasks[t].rd = "run" /\ tasks[t].fp \in Live
    /\ SetTask(t, [tasks[t] EXCEPT !.rd = "off"])

\* ------------------------------------------------- manage_recording_tasks
\* lines 229-276, 842-847: load_settings returns the list of channels.json,
\* and the empty list when load_json_async returned None (no file, a read
\* error, no JSON) or something that is not a list
new_channels == IF channels_ok THEN channels ELSE [c \in Chan |-> Absent]

\* line 850
current_channel_ids == {c \in Chan : new_channels[c].present}

\* lines 855-864: tasks of channels that left the list
Removed == {c \in Chan : active_tasks[c] # NoTask /\ c \notin current_channel_ids}

\* fault: the pass does not cancel the task of a channel switched off
Deactivated_Never == {}

\* fault: the pass also cancels a task whose channel record differs from
\* the one the task was started with
Deactivated_OrChanged ==
    {c \in current_channel_ids :
       /\ active_tasks[c] # NoTask
       /\ \/ new_channels[c].active = "off"
          \/ tasks[active_tasks[c]].name # new_channels[c].name}

\* lines 889-898: tasks of channels that are in the list with active "off"
Deactivated ==
    {c \in current_channel_ids : active_tasks[c] # NoTask /\ new_channels[c].active = "off"}

\* lines 871-888: channels of cfg without a task and with active "on"
ToStart(cfg, at) ==
    {c \in Chan : cfg[c].present /\ at[c] = NoTask /\ cfg[c].active = "on"}

\* the n-th channel of S in the order of channels.json
Nth(S, n) ==
    CHOOSE c \in S :
      Cardinality({d \in S : \E i, j \in 1..Len(ChanOrder) :
                      ChanOrder[i] = d /\ ChanOrder[j] = c /\ i <= j}) = n

\* lines 842-903: one pass over the freshly loaded channel list: cancel and
\* forget the tasks of removed and deactivated channels, drop their snapshot
\* entries, create a task for every active channel that has none
Reconcile ==
    LET gone == Removed \cup Deactivated
        start == ToStart(new_channels, active_tasks)
        n == Len(tasks)
        hit == {active_tasks[c] : c \in gone}
    IN
    /\ gone # {} => channel_progress_lock = Free
    /\ tasks' = [i \in 1..(n + Cardinality(start)) |->
                   IF i > n THEN NewTask(Nth(start, i - n))
                   ELSE IF i \in hit THEN CancelRec(tasks[i]) ELSE tasks[i]]
    /\ active_tasks' = [c \in Chan |->
                   IF c \in gone THEN NoTask
                   ELSE IF c \in start
                        THEN n + (CHOOSE m \in 1..Cardinality(start) : Nth(start, m) = c)
                        ELSE active_tasks[c]]
    /\ channel_progress' = [c \in Chan |->
                   IF c \in gone THEN NoEntry ELSE channel_progress[c]]

\* fault: the finally block gathers the tasks without cancelling them
MgrFinally_NoCancel ==
    /\ mpc' = "gather"
    /\ UNCHANGED <<shutdown_event, channels, active_tasks, tasks, channel_progress, fds, api_answers, channels_ok, worker, stream, out_file, readers, manager, channel_progress_lock, display>>

\* lines 912-916: the finally block cancels every task of active_tasks and
\* gathers them
MgrFinally ==
    /\ tasks' = [i \in TaskIds |->
                   IF \E c \in Chan : active_tasks[c] = i
                   THEN CancelRec(tasks[i]) ELSE tasks[i]]
    /\ mpc' = "gather"
    /\ UNCHANGED <<shutdown_event, channels, active_tasks, channel_progress, fds, api_answers, channels_ok, worker, stream, out_file, readers, manager, channel_progress_lock, display>>

\* line 841, first evaluation of the loop condition
MgrTop ==
    /\ mpc = "top"
    /\ IF shutdown_event THEN MgrFinally
       ELSE /\ mpc' = "load"
            /\ UNCHANGED <<shutdown_event, channels, active_tasks, tasks, channel_progress, fds, api_answers, channels_ok, worker, stream, out_file, readers, manager, channel_progress_lock, display>>

\* lines 842-907: load_settings returns, the pass runs, the loop waits
MgrPass ==
    /\ mpc = "load"
    /\ Reconcile
    /\ mpc' = "wait"
    /\ UNCHANGED <<shutdown_event, channels, fds, api_answers, channels_ok, worker, stream, out_file, readers, manager, channel_progress_lock, display>>

\* A cancelled task's wake-up is queued (call_soon) when cancel() is called:
\* the event loop runs it before any later timer or event callback, so the
\* CancelledError is thrown before manage_recording_tasks runs again
CancelsDelivered == \A t \in TaskIds : tasks[t].cancel # "req"

\* lines 906-909, 841: the 10 s expired, load_settings is awaited again
MgrTimeout ==
    /\ mpc = "wait"
    /\ CancelsDelivered
    /\ ~shutdown_event
    /\ mpc' = "load"
    /\ UNCHANGED <<shutdown_event, channels, active_tasks, tasks, channel_progress, fds, api_answers, channels_ok, worker, stream, out_file, readers, manager, channel_progress_lock, display>>

\* lines 907, 841, 912-916: shutdown_event.wait() returned, the loop is left
MgrShutdown ==
    /\ mpc = "wait"
    /\ CancelsDelivered
    /\ shutdown_event
    /\ MgrFinally

\* line 916: gather returns when every task of active_tasks is done
MgrGather ==
    /\ mpc = "gather"
    /\ \A c \in Chan : active_tasks[c] # NoTask => Done(active_tasks[c])
    /\ mpc' = "done"
    /\ UNCHANGED <<shutdown_event, channels, active_tasks, tasks, channel_progress, fds, api_answers, channels_ok, worker, stream, out_file, readers, manager, channel_progress_lock, display>>

\* lines 919-922
handle_shutdown ==
    /\ ~shutdown_event
    /\ shutdown_event' = TRUE
    /\ UNCHANGED <<channels, active_tasks, tasks, channel_progress, mpc, fds, api_answers, channels_ok, worker, stream, out_file, readers, manager, channel_progress_lock, display>>

\* ------------------------------------------------------------ environment
ChannelRecords ==
    {Absent} \cup [present : {TRUE}, active : {"on", "off"}, name : 0..MaxName]

\* the user rewrites channels.json (settings.py, gui.py): a record is added,
\* removed, or switched on or off.  Only load_settings reads the file, so an
\* edit made while the loop waits is the same edit made before the next
\* load.  MaxTasks caps the tasks a run creates.
EditChannels(c) ==
    /\ mpc \in {"top", "load"}
    /\ channels_ok
    /\ \E rec \in ChannelRecords :
         /\ rec # channels[c]
         /\ rec.name = channels[c].name \/ ~rec.present \/ ~channels[c].present
         /\ rec.name = 0 \/ channels[c].present
         /\ channels' = [channels EXCEPT ![c] = rec]
         /\ Len(tasks) + Cardinality(ToStart(channels', active_tasks)) <= MaxTasks
    /\ UNCHANGED <<shutdown_event, active_tasks, tasks, channel_progress, mpc, fds, api_answers, channels_ok, worker, stream, out_file, readers, manager, channel_progress_lock, display>>

\* the user changes the other fields of a record (name, output_dir, ...)
EditOther(c) ==
    /\ mpc \in {"top", "load"}
    /\ channels_ok
    /\ channels[c].present
    /\ \E n \in 0..MaxName :
         /\ n # channels[c].name
         /\ channels' = [channels EXCEPT ![c].name = n]
    /\ UNCHANGED <<shutdown_event, active_tasks, tasks, channel_progress, mpc, fds, api_answers, channels_ok, worker, stream, out_file, readers, manager, channel_progress_lock, display>>

\* channels.json is removed, or overwritten with something that is not a
\* JSON list
BreakChannelsFile ==
    /\ mpc \in {"top", "load"}
    /\ channels_ok
    /\ channels_ok' = FALSE
    /\ UNCHANGED <<shutdown_event, channels, active_tasks, tasks, channel_progress, mpc, fds, api_answers, worker, stream, out_file, readers, manager, channel_progress_lock, display>>

\* the list is written back to channels.json
RepairChannelsFile ==
    /\ mpc \in {"top", "load"}
    /\ ~channels_ok
    /\ Len(tasks) + Cardinality(ToStart(channels, active_tasks)) <= MaxTasks
    /\ channels_ok' = TRUE
    /\ UNCHANGED <<shutdown_event, channels, active_tasks, tasks, channel_progress, mpc, fds, api_answers, worker, stream, out_file, readers, manager, channel_progress_lock, display>>

\* --------------------------------------- plugin/chzzk.py, _fetch_playlist
\* what super()._fetch_playlist() does: it returns the playlist, or raises
\* StreamError with a response of status 4xx or 5xx, or with no response
FetchOutcomes == {"ok", "4xx", "5xx", "no_response"}

\* line 49: err.response is not None and err.response.status_code >= 400
Refreshable(out) == out \in {"4xx", "5xx"}

SetWorker(w) ==
    /\ worker' = w
    /\ UNCHANGED <<shutdown_event, channels, active_tasks, tasks, channel_progress, mpc, fds, api_answers, channels_ok, stream, out_file, readers, manager, channel_progress_lock, display>>

\* the worker's reload loop calls _fetch_playlist (line 36); line 45 enters
\* "for attempt in range(2)" with attempt 0
CallFetchPlaylist ==
    /\ worker.pc \in {"idle", "returned", "raised"}
    /\ worker.calls < MaxCalls
    /\ SetWorker([pc |-> "fetch", attempt |-> 0, hist |-> <<>>, result |-> "none",
                  calls |-> worker.calls + 1])

\* lines 46-54: super()._fetch_playlist() returns (line 47 returns its
\* value) or raises StreamError: line 49 selects the refresh or re-raises
SuperFetchPlaylist ==
    /\ worker.pc = "fetch"
    /\ \E out \in FetchOutcomes :
         LET w == [worker EXCEPT !.hist = Append(@, <<"fetch", out>>)] IN
         SetWorker(IF out = "ok" THEN [w EXCEPT !.pc = "returned", !.result = "playlist"]
                   ELSE IF Refreshable(out) THEN [w EXCEPT !.pc = "refresh"]
                   ELSE [w EXCEPT !.pc = "raised", !.result = "StreamError"])

\* lines 50-51, 45, 55: refresh_playlist() returns or raises StreamError
\* (lines 98-119), which leaves _fetch_playlist; after it returned the loop
\* takes the next attempt, and after the second attempt line 55 raises
refresh_playlist ==
    /\ worker.pc = "refresh"
    /\ \E ok \in BOOLEAN :
         LET w == [worker EXCEPT !.hist = Append(@, <<"refresh", IF ok THEN "ok" ELSE "error">>)] IN
         SetWorker(IF ~ok THEN [w EXCEPT !.pc = "raised", !.result = "StreamError"]
                   ELSE IF worker.attempt + 1 < 2
                   THEN [w EXCEPT !.pc = "fetch", !.attempt = @ + 1]
                   ELSE [w EXCEPT !.pc = "raised", !.attempt = @ + 1,
                                  !.result = "StreamError"])

\* ------------------------------------------ plugin/chzzk.py, ChzzkHLSStream
\* line 73
REFRESH_BEFORE == 3 * 60 * 60

\* A URL is modelled by its query string: the sequence of its parameters
\* <<key, value>> as written in the URL.  Values are "" (blank), "x", a raw
\* "/", its percent-encoded form "%2F", the tokens "t1" and "t2", and decimal
\* numbers.  urlparse and urlunparse hand scheme, host, path and fragment on
\* unchanged.
IntOf == ("0" :> 0) @@ ("1" :> 1) @@ ("10800" :> 10800) @@ ("10801" :> 10801)
         @@ ("10802" :> 10802) @@ ("10803" :> 10803)

\* urllib.parse.unquote_plus and quote_plus on the values of the model
unquote_plus(v) == IF v = "%2F" THEN "/" ELSE v
quote_plus(v) == IF v = "/" THEN "%2F" ELSE v

\* urllib.parse.parse_qs (keep_blank_values=False): a dict key -> list of
\* values, in the order the keys first occur; blank values are left out
RECURSIVE parse_qs_into(_, _)
parse_qs_into(d, q) ==
    IF q = <<>> THEN d
    ELSE LET k == unquote_plus(Head(q)[1])
             v == unquote_plus(Head(q)[2])
         IN parse_qs_into(
              IF Head(q)[2] = "" THEN d
              ELSE IF \E i \in DOMAIN d : d[i][1] = k
              THEN [i \in DOMAIN d |->
                      IF d[i][1] = k THEN <<k, Append(d[i][2], v)>> ELSE d[i]]
              ELSE Append(d, <<k, <<v>>>>),
              Tail(q))

parse_qs(q) == parse_qs_into(<<>>, q)

\* dict.get(k): the list of k, <<>> for None
DictGet(d, k) ==
    IF \E i \in DOMAIN d : d[i][1] = k
    THEN d[CHOOSE i \in DOMAIN d : d[i][1] = k][2]
    ELSE <<>>

\* urllib.parse.urlencode(d, doseq=True)
RECURSIVE urlencode(_)
urlencode(d) ==
    IF d = <<>> THEN <<>>
    ELSE [i \in 1..Len(Head(d)[2]) |->
            <<quote_plus(Head(d)[1]), quote_plus(Head(d)[2][i])>>]
         \o urlencode(Tail(d))

\* lines 140-154, the value assigned to _url: the old query re-encoded from
\* its parsed form, with the hdnts list of the new URL when it has one
replace_token(old, new) ==
    LET qs_old == parse_qs(old)
        qs_new == parse_qs(new)
        tok == DictGet(qs_new, "hdnts")
    IN urlencode(IF tok = <<>> THEN qs_old
                 ELSE IF DictGet(qs_old, "hdnts") # <<>>
                 THEN [i \in DOMAIN qs_old |->
                         IF qs_old[i][1] = "hdnts" THEN <<"hdnts", tok>> ELSE qs_old[i]]
                 ELSE Append(qs_old, <<"hdnts", tok>>))

\* lines 156-170: the first value of "exp" when it is a digit string
None == -1
get_expire_time(url) ==
    LET exp_values == DictGet(parse_qs(url), "exp") IN
    IF exp_values # <<>> /\ exp_values[1] \in DOMAIN IntOf
    THEN IntOf[exp_values[1]] ELSE None

\* fault: the refresh is due only after the deadline has passed
should_refresh_AfterDeadline(now, expire) ==
    expire # None /\ now > expire - REFRESH_BEFORE

\* lines 172-181
should_refresh(now, expire) ==
    expire # None /\ now >= expire - REFRESH_BEFORE

\* fault: _url is rewritten in two assignments, first without the token
AssignUrl_Piecewise(s, q) ==
    LET bare == SelectSeq(q, LAMBDA e : e[1] # "hdnts") IN
    IF s.url = bare THEN [s EXCEPT !.url = q, !.pc = "expire"]
    ELSE [s EXCEPT !.url = bare]

\* line 154: "self._url = ..." is one attribute store
AssignUrl(s, q) == [s EXCEPT !.url = q, !.pc = "expire"]

SetStream(s) ==
    /\ stream' = s
    /\ UNCHANGED <<shutdown_event, channels, active_tasks, tasks, channel_progress, mpc, fds, api_answers, channels_ok, worker, out_file, readers, manager, channel_progress_lock, display>>

\* the URLs the API resolves to during a refresh
ResolvedUrls ==
    {<<<<"hdnts", "t2">>, <<"exp", "10803">>>>,
     <<<<"exp", "10803">>, <<"hdnts", "t2">>>>,
     <<<<"exp", "10803">>>>}

\* time passes
Tick ==
    /\ stream.pc # "none"
    /\ stream.now < MaxClock
    /\ SetStream([stream EXCEPT !.now = @ + 1])

\* lines 183-187: the worker thread reads the url property; when no refresh
\* is due it returns _url.  err is the StreamError that ended the last read.
UrlProperty ==
    /\ stream.pc = "idle"
    /\ SetStream(IF should_refresh(stream.now, stream.expire)
                 THEN [stream EXCEPT !.pc = "resolve", !.old = stream.url, !.err = "none"]
                 ELSE [stream EXCEPT !.got = stream.url, !.err = "none"])

\* lines 101-107, 125: what makes refresh_playlist raise StreamError: the API
\* answers with an error, with fewer than two fields, with a status other
\* than OPEN, with no media list, or no HLS variant has stream info
StreamErrors == {"api_error", "short_answer", "not_open", "no_media", "no_variant"}

\* fault: the token of the first variant is taken over before the variants
\* are found to lack stream info
Resolve_AssignsFirst ==
    /\ stream.pc = "resolve"
    /\ \/ \E new \in ResolvedUrls :
            SetStream([stream EXCEPT !.pc = "replace", !.new = new])
       \/ \E e \in StreamErrors, new \in ResolvedUrls :
            SetStream([stream EXCEPT !.pc = "idle", !.err = e,
                          !.url = IF e = "no_variant" THEN replace_token(stream.url, new)
                                  ELSE @])

\* lines 91-125: refresh_playlist resolves a new URL (get_live_detail, the
\* variant playlist), or raises StreamError; every raise comes before the
\* call of _replace_token, with nothing assigned
Resolve ==
    /\ stream.pc = "resolve"
    /\ \/ \E new \in ResolvedUrls :
            SetStream([stream EXCEPT !.pc = "replace", !.new = new])
       \/ \E e \in StreamErrors :
            SetStream([stream EXCEPT !.pc = "idle", !.err = e])

\* lines 140-154: _replace_token
ReplaceToken ==
    /\ stream.pc = "replace"
    /\ SetStream(AssignUrl(stream, replace_token(stream.url, stream.new)))

\* lines 123-124, 187: _expire is set from _url, and the property returns _url
SetExpire ==
    /\ stream.pc = "expire"
    /\ SetStream([stream EXCEPT !.pc = "idle", !.expire = get_expire_time(stream.url),
                                !.got = stream.url])

\* another thread reads _url (line 187) at any moment
ReadUrl ==
    /\ stream.pc # "none"
    /\ stream.seen # stream.url
    /\ SetStream([stream EXCEPT !.seen = stream.url])

\* ------------------------------------------------- output file names
\* Text is a sequence of characters; "K" stands for a character of three
\* bytes in UTF-8 (a Hangul syllable), every other character has one byte;
\* "h" stands for a hexadecimal digit of the SHA-256 of the file name.
MAX_FILENAME_BYTES == 255
MAX_HASH_LENGTH == 8

\* line 181, the character class of SPECIAL_CHARS_REMOVER
SpecialChars == {"\\", "/", ":", "*", "?", "\"", "<", ">", "|"}

Rep(c, n) == [i \in 1..n |-> c]

\* len(s.encode("utf-8"))
ByteLen(s) == Len(s) + 2 * Cardinality({i \in 1..Len(s) : s[i] = "K"})

\* s.encode("utf-8")[:m].decode("utf-8", "ignore"): the slice keeps m bytes
\* (all but the last -m when m is negative), and decoding drops the bytes
\* of a character that was cut
Fit(s, n) ==
    LET k == CHOOSE k \in 0..Len(s) :
                 /\ ByteLen(SubSeq(s, 1, k)) <= n
                 /\ k < Len(s) => ByteLen(SubSeq(s, 1, k + 1)) > n
    IN SubSeq(s, 1, k)

SliceDecode(s, m) ==
    LET len == ByteLen(s)
        n == IF m >= 0 THEN (IF m < len THEN m ELSE len)
                       ELSE (IF len + m > 0 THEN len + m ELSE 0)
    IN Fit(s, n)

EndsWith(s, suf) ==
    Len(s) >= Len(suf) /\ SubSeq(s, Len(s) - Len(suf) + 1, Len(s)) = suf

\* the last index of character c in s, 0 when there is none
RFind(s, c) ==
    IF \E i \in 1..Len(s) : s[i] = c
    THEN CHOOSE i \in 1..Len(s) : s[i] = c /\ \A j \in (i + 1)..Len(s) : s[j] # c
    ELSE 0

\* os.path.splitext: the extension starts at the last dot of the last path
\* component, unless only dots precede it there
splitext(p) ==
    LET sep == RFind(p, "/")
        dot == RFind(p, ".")
    IN IF dot > sep /\ \E i \in (sep + 1)..(dot - 1) : p[i] # "."
       THEN <<SubSeq(p, 1, dot - 1), SubSeq(p, dot, Len(p))>>
       ELSE <<p, <<>>>>

TsPart == <<".", "t", "s", ".", "p", "a", "r", "t">>

\* lines 364-397
shorten_filename(filename) ==
    LET parts == IF EndsWith(filename, TsPart)
                 THEN <<SubSeq(filename, 1, Len(filename) - Len(TsPart)), TsPart>>
                 ELSE splitext(filename)
        name == parts[1]
        compound_ext == parts[2]
        max_name_length ==
            MAX_FILENAME_BYTES - (ByteLen(compound_ext) + MAX_HASH_LENGTH + 1)
    IN IF ByteLen(filename) > MAX_FILENAME_BYTES
       THEN SliceDecode(name, max_name_length)
              \o <<"_">> \o Rep("h", MAX_HASH_LENGTH) \o compound_ext
       ELSE filename

\* str.rstrip(): trailing blanks are removed
RECURSIVE rstrip(_)
rstrip(s) ==
    IF s # <<>> /\ s[Len(s)] = " " THEN rstrip(SubSeq(s, 1, Len(s) - 1)) ELSE s

\* SPECIAL_CHARS_REMOVER.sub("", s)
RemoveSpecial(s) == SelectSeq(s, LAMBDA c : c \notin SpecialChars)

\* time.strftime("%Y-%m-%d %H:%M:%S") in second now of the wall clock,
\* shortened to a date and a time
current_time(now) == <<"d", " ", "0", ":", "0", ":">> \o <<(<<"0", "1", "2", "3">>)[now + 1]>>

\* lines 607-617: the name of the temporary file
temp_output_file(time_text, channel_name, liveTitle) ==
    shorten_filename(
      <<"[">> \o [i \in 1..Len(time_text) |->
                    IF time_text[i] = ":" THEN "_" ELSE time_text[i]]
      \o <<"]", " ">> \o channel_name \o <<" ">>
      \o RemoveSpecial(rstrip(liveTitle)) \o TsPart)

SetOutFile(f) ==
    /\ out_file' = f
    /\ UNCHANGED <<shutdown_event, channels, active_tasks, tasks, channel_progress, mpc, fds, api_answers, channels_ok, worker, stream, readers, manager, channel_progress_lock, display>>

\* lines 607-620: record_stream computes the two file names of a session
NameOutput ==
    /\ out_file.pc = "open"
    /\ LET temp == temp_output_file(current_time(0), out_file.channel_name,
                                     out_file.liveTitle) IN
       SetOutFile([out_file EXCEPT !.pc = "named", !.temp = temp,
                                   !.final = SubSeq(temp, 1, Len(temp) - 5)])

\* a call of shorten_filename returns
ShortenFilename ==
    /\ out_file.pc = "call"
    /\ SetOutFile([out_file EXCEPT !.pc = "ret", !.ret = shorten_filename(out_file.arg)])

\* ------------------------------------------------- read_stream, progress
\* Numbers that Python holds as floats are rationals <<n, d>> with d > 0.
\* A formatted value is a record: val is the number shown, in hundredths
\* when decimals = 2 ("{:.2f}"), unit the text after it, per the "/s" of a
\* speed.

\* no read_stream is modelled
NoReaders == [pc |-> "none"]

NA == [val |-> 0, decimals |-> 0, unit |-> "N/A", per |-> ""]

RECURSIVE Pow10(_)
Pow10(k) == IF k = 0 THEN 1 ELSE 10 * Pow10(k - 1)

\* int(s) of a string of digits
RECURSIVE DigitsValue(_)
DigitsValue(ds) ==
    IF ds = <<>> THEN 0
    ELSE 10 * DigitsValue(SubSeq(ds, 1, Len(ds) - 1)) + ds[Len(ds)]

\* len(str(n))
RECURSIVE DecimalLen(_)
DecimalLen(n) == IF n < 10 THEN 1 ELSE 1 + DecimalLen(n \div 10)

\* "{:.2f}".format(n / d) for n >= 0: the nearest hundredth, a tie to the
\* even one
Round2(q) ==
    LET n == 100 * q[1]
        d == q[2]
        lo == n \div d
        r == n % d
    IN IF 2 * r < d THEN lo
       ELSE IF 2 * r > d THEN lo + 1
       ELSE IF lo % 2 = 0 THEN lo ELSE lo + 1

\* lines 400-416
size_names == <<"B", "KB", "MB", "GB", "TB">>

RECURSIVE format_size_loop(_, _)
format_size_loop(q, i) ==
    IF q[1] >= 1024 * q[2] /\ i < Len(size_names) - 1
    THEN format_size_loop(<<q[1], q[2] * 1024>>, i + 1)
    ELSE [val |-> Round2(q), decimals |-> 2, unit |-> size_names[i + 1], per |-> ""]

format_size(q) ==
    IF q[1] <= 0 THEN [val |-> 0, decimals |-> 0, unit |-> "B", per |-> ""]
    ELSE format_size_loop(q, 0)

\* An out_time text: a time hours:minutes:seconds.fraction that time_pattern
\* matches (frac: the digits of the fraction), or a text it does not match
TimeText(h, m, s, frac) == [match |-> TRUE, h |-> h, m |-> m, s |-> s, frac |-> frac]

NoMatch == [match |-> FALSE, h |-> 0, m |-> 0, s |-> 0, frac |-> <<>>]

\* lines 422-439; the fraction is int(digits) / 10 ** len(str(int(digits)))
parse_time(time_str) ==
    IF ~time_str.match THEN <<0, 1>>
    ELSE LET fractions == DigitsValue(time_str.frac)
             scale == Pow10(DecimalLen(fractions))
         IN <<(time_str.h * 3600 + time_str.m * 60 + time_str.s) * scale + fractions,
              scale>>

\* lines 496-501
bitrate_formatted(total_size, out_time_seconds) ==
    IF out_time_seconds[1] > 0
    THEN [val |-> Round2(<<total_size * 8 * out_time_seconds[2],
                           out_time_seconds[1] * 1000>>),
          decimals |-> 2, unit |-> "kbps", per |-> ""]
    ELSE NA

\* collections.deque(maxlen=5).append
MaxSamples == 5

DequeAppend(dq, x) ==
    IF Len(dq) < MaxSamples THEN Append(dq, x) ELSE Append(Tail(dq), x)

RECURSIVE RatSum(_)
RatSum(qs) ==
    IF qs = <<>> THEN <<0, 1>>
    ELSE LET rest == RatSum(Tail(qs))
         IN <<Head(qs)[1] * rest[2] + rest[1] * Head(qs)[2], Head(qs)[2] * rest[2]>>

\* sum(samples) / len(samples)
Average(qs) == <<RatSum(qs)[1], RatSum(qs)[2] * Len(qs)>>

\* the value of a total_size line: digits, a text that is no integer, or no
\* such line in the cycle (summary.get gives "0")
BadSize == -1
MissingSize == -2

\* lines 485-488
total_size_of(total_size_str) == IF total_size_str >= 0 THEN total_size_str ELSE 0

\* a channel without a recording session: no entry in channel_progress and
\* no read_stream task.  session lists the instantaneous speeds that the
\* channel's read_stream has computed since it started
ReaderOff ==
    [on |-> FALSE, prev_total_size |-> None, prev_time |-> None, session |-> <<>>,
     bitrate |-> NA, download_speed |-> NA, total_size |-> NA, out_time |-> NoMatch]

SetReaders(r) ==
    /\ readers' = r
    /\ UNCHANGED <<shutdown_event, channels, active_tasks, tasks, channel_progress, mpc, fds, api_answers, channels_ok, worker, stream, out_file, manager, channel_progress_lock, display>>

\* lines 723-735: a session puts the channel's entry, every field "N/A",
\* and starts read_stream (lines 461-465)
StartReader(c) ==
    /\ readers.pc = "run"
    /\ ~readers.r[c].on
    /\ SetReaders([readers EXCEPT !.r[c] = [ReaderOff EXCEPT !.on = TRUE]])

\* lines 467-469, 771-772: the remuxer's progress stream ends and the
\* session removes the entry
EndReader(c) ==
    /\ readers.pc = "run"
    /\ readers.r[c].on
    /\ SetReaders([readers EXCEPT !.r[c] = ReaderOff])

\* time.time() advances
ClockTick ==
    /\ readers.pc = "run"
    /\ readers.now < MaxClock
    /\ SetReaders([readers EXCEPT !.now = @ + 1])

\* lines 481-536: read_stream of channel c reads the "progress" line that
\* completes a cycle in which total_size and out_time had the given texts
ProgressCycle(c, total_size_str, out_time_str) ==
    /\ readers.pc = "run"
    /\ readers.r[c].on
    /\ readers.cycles < MaxCycles
    /\ channel_progress_lock = Free
    /\ LET me == readers.r[c]
           total_size == total_size_of(total_size_str)
           time_now == readers.now
           measured == me.prev_total_size # None /\ me.prev_time # None
                         /\ time_now - me.prev_time > 0
           instant_speed == <<total_size - me.prev_total_size, time_now - me.prev_time>>
           samples == IF measured THEN DequeAppend(readers.speed_samples, instant_speed)
                                  ELSE readers.speed_samples
       IN SetReaders([readers EXCEPT
            !.cycles = @ + 1,
            !.speed_samples = samples,
            !.r[c] = [on |-> TRUE,
                      prev_total_size |-> total_size,
                      prev_time |-> time_now,
                      session |-> IF measured THEN Append(me.session, instant_speed)
                                              ELSE me.session,
                      bitrate |-> bitrate_formatted(total_size, parse_time(out_time_str)),
                      download_speed |->
                          IF measured
                          THEN [format_size(Average(samples)) EXCEPT !.per = "/s"]
                          ELSE NA,
                      total_size |-> format_size(<<total_size, 1>>),
                      out_time |-> out_time_str]])

\* a call of parse_time returns
ParseTime ==
    /\ readers.pc = "call"
    /\ SetReaders([readers EXCEPT !.pc = "ret", !.ret = parse_time(readers.arg)])

\* ------------------------- manage_recording_tasks, the records of the list
\* A record of channels.json as far as the pass reads it: whether it has the
\* key "id", the JSON value of the key (null or a string) and the value of
\* "active" (an absent key counts as "on": channel.get("active", "on")).
JNull == [type |-> "null", val |-> ""]
JStr(s) == [type |-> "str", val |-> s]

\* channel.get("id"): None when the key is absent
GetId(channel) == IF channel.has_id THEN channel.id ELSE JNull

\* str(x): str(None) is the text "None", a string is itself
str(x) == IF x.type = "null" THEN "None" ELSE x.val

\* line 850
ChannelIdsOf(chs) == {str(GetId(chs[i])) : i \in 1..Len(chs)}

\* lines 866-900, the loop over the records from the i-th on; st holds the
\* keys of active_tasks, the records a task was created for, the keys whose
\* task was cancelled and the number of warnings of line 869
RECURSIVE ForChannels(_, _, _)
ForChannels(st, chs, i) ==
    IF i > Len(chs) THEN st
    ELSE LET channel == chs[i]
             channel_id == str(GetId(channel))
         IN ForChannels(
              IF channel_id = "" THEN [st EXCEPT !.warnings = @ + 1]
              ELSE IF channel_id \notin st.keys
              THEN IF channel.active = "on"
                   THEN [st EXCEPT !.keys = @ \cup {channel_id},
                                   !.started = Append(@, i)]
                   ELSE st
              ELSE IF channel.active = "off"
                   THEN [st EXCEPT !.keys = @ \ {channel_id},
                                   !.cancelled = @ \cup {channel_id}]
                   ELSE st,
              chs, i + 1)

\* lines 842-907: load_settings returned manager.new_channels; the tasks of
\* keys that are no id of the list are cancelled (lines 855-864), the loop
\* over the records runs, and the pass waits
ListPass ==
    /\ manager.pc = "load"
    /\ LET gone == manager.keys \ ChannelIdsOf(manager.new_channels)
           st == ForChannels([keys |-> manager.keys \ gone, started |-> <<>>,
                              cancelled |-> gone, warnings |-> 0],
                             manager.new_channels, 1)
       IN manager' = [pc |-> "wait", new_channels |-> manager.new_channels,
                      before |-> manager.keys, keys |-> st.keys,
                      started |-> st.started, cancelled |-> st.cancelled,
                      warnings |-> st.warnings]
    /\ UNCHANGED <<shutdown_event, channels, active_tasks, tasks, channel_progress, mpc, fds, api_answers, channels_ok, worker, stream, out_file, readers, channel_progress_lock, display>>

\* lines 906-909, 841: the 10 s expired and load_settings returns the same list
ListTimeout ==
    /\ manager.pc = "wait"
    /\ manager' = [manager EXCEPT !.pc = "load"]
    /\ UNCHANGED <<shutdown_event, channels, active_tasks, tasks, channel_progress, mpc, fds, api_answers, channels_ok, worker, stream, out_file, readers, channel_progress_lock, display>>

\* -------------------------------------- record_stream, successive sessions
\* One channel's task over several sessions.  out_file.disk is the output
\* directory: the set of <<file name, session that wrote its content>>;
\* wrote and finals list every <<name, session>> that a session wrote as
\* its temporary file or finalized.
SessionTitles == {<<>>, <<"a">>}

\* the file of that name, if any, is replaced by one of session n
PutFile(disk, name, n) == {f \in disk : f[1] # name} \cup {<<name, n>>}

\* the wall clock advances by a second
SessionTick ==
    /\ out_file.pc \in {"poll", "spawn", "wait"}
    /\ out_file.now < MaxClock
    /\ SetOutFile([out_file EXCEPT !.now = @ + 1])

\* lines 589-620: get_live_info returns OPEN with a title and the names of
\* the session are computed
SessionStart ==
    /\ out_file.pc = "poll"
    /\ out_file.n < MaxSessions
    /\ \E title \in SessionTitles :
         LET temp == temp_output_file(current_time(out_file.now),
                                      out_file.channel_name, title)
         IN SetOutFile([out_file EXCEPT !.pc = "spawn", !.n = @ + 1,
                                        !.liveTitle = title, !.temp = temp,
                                        !.final = SubSeq(temp, 1, Len(temp) - 5)])

\* lines 683-714: ffmpeg runs with "-y" and the temporary path: it creates
\* the file, or truncates the file of that name
FfmpegOpensOutput ==
    /\ out_file.pc = "spawn"
    /\ SetOutFile([out_file EXCEPT
         !.pc = "wait",
         !.disk = PutFile(@, out_file.temp, out_file.n),
         !.wrote = @ \cup {<<out_file.temp, out_file.n>>}])

\* lines 753-768, 799-802: the pipeline is over; os.rename moves the
\* temporary file to the final path, replacing a file of that name, and the
\* task waits for the poll interval (for 0 s: not at all)
SessionFinalize ==
    /\ out_file.pc = "wait"
    /\ SetOutFile([out_file EXCEPT
         !.pc = "poll",
         !.disk = PutFile({f \in @ : f[1] # out_file.temp}, out_file.final, out_file.n),
         !.finals = @ \cup {<<out_file.final, out_file.n>>}])

\* lines 785-802: the spawn of a process or the rename raised; the files
\* stay as they are and the task waits for the poll interval
SessionFails ==
    /\ out_file.pc \in {"spawn", "wait"}
    /\ SetOutFile([out_file EXCEPT !.pc = "poll"])

\* ------------------------------------------------------ display_progress
SetDisplay(d, holder) ==
    /\ display' = d
    /\ channel_progress_lock' = holder
    /\ UNCHANGED <<shutdown_event, channels, active_tasks, tasks, channel_progress, mpc, fds, api_answers, channels_ok, worker, stream, out_file, readers, manager>>

\* the channels that have an entry: what the loop of line 950 visits
Entries == {c \in Chan : channel_progress[c] # NoEntry}

\* fault: the wait for a log message is moved into the async with block, so
\* display_progress suspends while it holds the lock
DisplayRead_AwaitsInside ==
    /\ display.pc \in {"start", "sleep"}
    /\ channel_progress_lock = Free
    /\ SetDisplay([pc |-> "logs", shown |-> Entries], "display_progress")

\* lines 944-988: the loop goes on (shutdown_event is not set or the log
\* queue is not empty); inside "async with channel_progress_lock" the
\* panels are built from the entries, with no await; the lock is released
\* and the task suspends in the wait for a log message
DisplayRead ==
    /\ display.pc \in {"start", "sleep"}
    /\ channel_progress_lock = Free
    /\ SetDisplay([pc |-> "logs", shown |-> Entries], Free)

\* lines 985-999: no log message came within 0.1 s; the log panel is
\* updated and the task sleeps for 0.1 s
DisplayLogsTimeout ==
    /\ display.pc = "logs"
    /\ SetDisplay([display EXCEPT !.pc = "sleep"], channel_progress_lock)

\* line 944: shutdown_event is set and the log queue is empty
DisplayEnd ==
    /\ display.pc \in {"start", "sleep"}
    /\ shutdown_event
    /\ SetDisplay([display EXCEPT !.pc = "done"], channel_progress_lock)

\* ---------------------------------------------------------- specification
Init ==
    /\ shutdown_event = FALSE
    /\ channels \in [Chan -> {r \in ChannelRecords : r.name = 0}]
    /\ Cardinality(ToStart(channels, [c \in Chan |-> NoTask])) <= MaxTasks
    /\ active_tasks = [c \in Chan |-> NoTask]
    /\ tasks = <<>>
    /\ channel_progress = [c \in Chan |-> NoEntry]
    /\ mpc = "top"
    /\ fds = [f \in Fds |-> NoTask]
    /\ channels_ok = TRUE
    /\ worker = IdleWorker
    /\ stream = NoStream
    /\ display = NoDisplay
    /\ channel_progress_lock = Free
    /\ manager = NoManager
    /\ readers = NoReaders
    /\ out_file = NoFile
    /\ api_answers = [c \in Chan |-> IF c \in Broadcasting THEN LiveAnswers
                                                        ELSE OfflineAnswers]

TaskNext(t) ==
    \/ DelayDone(t) \/ Poll(t) \/ PollWaitTimeout(t) \/ PollWaitShutdown(t)
    \/ KillOldSDone(t) \/ KillOldFDone(t) \/ SpawnStreamlink(t) \/ SpawnFfmpeg(t)
    \/ WaitWake(t) \/ ShutFDone(t) \/ ShutSDone(t) \/ StreamWaitDone(t)
    \/ EpWaitTimeout(t) \/ EpWaitShutdown(t) \/ FinSDone(t) \/ FinFDone(t)
    \/ DeliverCancel(t)

EnvNext(t) ==
    \/ StreamlinkExits(t) \/ FfmpegExits(t) \/ StreamlinkReaped(t) \/ FfmpegReaped(t)
    \/ FfmpegWritesOutput(t) \/ ReadProgress(t) \/ ReadError(t)

MgrNext == MgrTop \/ MgrPass \/ MgrTimeout \/ MgrShutdown \/ MgrGather

Next ==
    \/ MgrNext
    \/ handle_shutdown
    \/ \E c \in Chan : EditChannels(c)
    \/ \E t \in 1..MaxTasks : TaskNext(t) \/ EnvNext(t)

Spec == Init /\ [][Next]_vars

\* Runs in which only the channels that broadcast are ever listed in
\* channels.json: their records are added, removed and switched on and off,
\* so a channel can have a cancelled task that is still ending and a new one
OnlyBroadcasting(chs) == \A c \in Chan \ Broadcasting : chs[c] = Absent

NextListed ==
    \/ MgrNext
    \/ handle_shutdown
    \/ \E c \in Broadcasting : EditChannels(c)
    \/ \E t \in 1..MaxTasks : TaskNext(t) \/ EnvNext(t)

\* Runs in which the API answers OPEN or CLOSE for B, only B is ever
\* listed, and the other fields of its record are edited as well
InitNames ==
    /\ shutdown_event = FALSE
    /\ channels \in [Chan -> {r \in ChannelRecords : r.name = 0}]
    /\ OnlyBroadcasting(channels)
    /\ Cardinality(ToStart(channels, [c \in Chan |-> NoTask])) <= MaxTasks
    /\ active_tasks = [c \in Chan |-> NoTask]
    /\ tasks = <<>>
    /\ channel_progress = [c \in Chan |-> NoEntry]
    /\ mpc = "top"
    /\ fds = [f \in Fds |-> NoTask]
    /\ channels_ok = TRUE
    /\ worker = IdleWorker
    /\ stream = NoStream
    /\ display = NoDisplay
    /\ channel_progress_lock = Free
    /\ manager = NoManager
    /\ readers = NoReaders
    /\ out_file = NoFile
    /\ api_answers = [c \in Chan |-> IF c \in Broadcasting THEN {"OPEN", "CLOSE"}
                                                        ELSE {"CLOSE"}]

\* the same runs without edits of the other fields
SpecListed == InitNames /\ [][NextListed]_vars

NextNames == NextListed \/ \E c \in Broadcasting : EditOther(c)

SpecNames == InitNames /\ [][NextNames]_vars

\* Runs in which both channels are in channels.json, switched on and
\* broadcasting, the API answers OPEN or CLOSE, and channels.json is not
\* edited
InitBoth ==
    /\ shutdown_event = FALSE
    /\ channels = [c \in Chan |-> [present |-> TRUE, active |-> "on", name |-> 0]]
    /\ active_tasks = [c \in Chan |-> NoTask]
    /\ tasks = <<>>
    /\ channel_progress = [c \in Chan |-> NoEntry]
    /\ mpc = "top"
    /\ fds = [f \in Fds |-> NoTask]
    /\ channels_ok = TRUE
    /\ worker = IdleWorker
    /\ stream = NoStream
    /\ display = NoDisplay
    /\ channel_progress_lock = Free
    /\ manager = NoManager
    /\ readers = NoReaders
    /\ out_file = NoFile
    /\ api_answers = [c \in Chan |-> {"OPEN", "CLOSE"}]

NextBoth ==
    \/ MgrNext
    \/ handle_shutdown
    \/ \E t \in 1..MaxTasks : TaskNext(t) \/ EnvNext(t)

SpecBoth == InitBoth /\ [][NextBoth]_vars

\* Runs in which channels.json is not edited but may be missing or hold no
\* list when it is loaded; the API answers OPEN or CLOSE for B and CLOSE
\* for A
InitFile ==
    /\ shutdown_event = FALSE
    /\ channels \in [Chan -> {r \in ChannelRecords : r.name = 0}]
    /\ Cardinality(ToStart(channels, [c \in Chan |-> NoTask])) <= MaxTasks
    /\ active_tasks = [c \in Chan |-> NoTask]
    /\ tasks = <<>>
    /\ channel_progress = [c \in Chan |-> NoEntry]
    /\ mpc = "top"
    /\ fds = [f \in Fds |-> NoTask]
    /\ channels_ok = TRUE
    /\ worker = IdleWorker
    /\ stream = NoStream
    /\ display = NoDisplay
    /\ channel_progress_lock = Free
    /\ manager = NoManager
    /\ readers = NoReaders
    /\ out_file = NoFile
    /\ api_answers = [c \in Chan |-> IF c \in Broadcasting THEN {"OPEN", "CLOSE"}
                                                        ELSE {"CLOSE"}]

NextFile ==
    \/ MgrNext
    \/ handle_shutdown
    \/ BreakChannelsFile \/ RepairChannelsFile
    \/ \E t \in 1..MaxTasks : TaskNext(t) \/ EnvNext(t)

SpecFile == InitFile /\ [][NextFile]_vars

\* The HLS worker of one streamlink process, which calls _fetch_playlist up
\* to MaxCalls times; the recorder is left out
InitFetch ==
    /\ shutdown_event = FALSE
    /\ channels = [c \in Chan |-> Absent]
    /\ active_tasks = [c \in Chan |-> NoTask]
    /\ tasks = <<>>
    /\ channel_progress = [c \in Chan |-> NoEntry]
    /\ mpc = "top"
    /\ fds = [f \in Fds |-> NoTask]
    /\ channels_ok = TRUE
    /\ worker = IdleWorker
    /\ stream = NoStream
    /\ display = NoDisplay
    /\ channel_progress_lock = Free
    /\ manager = NoManager
    /\ readers = NoReaders
    /\ out_file = NoFile
    /\ api_answers = [c \in Chan |-> {"CLOSE"}]

NextFetch == CallFetchPlaylist \/ SuperFetchPlaylist \/ refresh_playlist

SpecFetch == InitFetch /\ [][NextFetch]_vars

\* One ChzzkHLSStream, created with a URL of up to MaxParams parameters
\* (lines 75-89), its worker thread and a thread that reads the URL; the
\* recorder is left out
UrlParams ==
    {<<"hdnts", "t1">>, <<"exp", "1">>, <<"exp", "10800">>, <<"exp", "10802">>}
      \cup {<<"a", v>> : v \in {"", "x", "/", "%2F"}}

InitUrls == UNION {[1..n -> UrlParams] : n \in 0..MaxParams}

InitStream ==
    /\ shutdown_event = FALSE
    /\ channels = [c \in Chan |-> Absent]
    /\ active_tasks = [c \in Chan |-> NoTask]
    /\ tasks = <<>>
    /\ channel_progress = [c \in Chan |-> NoEntry]
    /\ mpc = "top"
    /\ fds = [f \in Fds |-> NoTask]
    /\ channels_ok = TRUE
    /\ worker = IdleWorker
    /\ out_file = NoFile
    /\ channel_progress_lock = Free
    /\ display = NoDisplay
    /\ readers = NoReaders
    /\ manager = NoManager
    /\ api_answers = [c \in Chan |-> {"CLOSE"}]
    /\ \E url \in InitUrls :
         stream = [pc |-> "idle", url |-> url, expire |-> get_expire_time(url),
                   now |-> 0, old |-> url, new |-> <<>>, got |-> url, seen |-> url,
                   err |-> "none"]

NextStream == Tick \/ UrlProperty \/ Resolve \/ ReplaceToken \/ SetExpire \/ ReadUrl

SpecStream == InitStream /\ [][NextStream]_vars

\* the recorder's tasks, processes and configuration at their initial values
RecorderIdle ==
    /\ shutdown_event = FALSE
    /\ channels = [c \in Chan |-> Absent]
    /\ active_tasks = [c \in Chan |-> NoTask]
    /\ tasks = <<>>
    /\ channel_progress = [c \in Chan |-> NoEntry]
    /\ mpc = "top"
    /\ fds = [f \in Fds |-> NoTask]
    /\ channels_ok = TRUE
    /\ worker = IdleWorker
    /\ stream = NoStream
    /\ display = NoDisplay
    /\ channel_progress_lock = Free
    /\ api_answers = [c \in Chan |-> {"CLOSE"}]

\* A poll returned OPEN for a channel with a name and a live title of up to
\* MaxText characters, and record_stream computes the file names
TextChars == {"a", " ", "/", ":", "*"}

Texts == UNION {[1..n -> TextChars] : n \in 0..MaxText}

InitNaming ==
    /\ RecorderIdle
    /\ manager = NoManager
    /\ readers = NoReaders
    /\ \E n \in Texts, t \in Texts :
         out_file = [pc |-> "open", channel_name |-> n, liveTitle |-> t,
                     temp |-> <<>>, final |-> <<>>]

SpecNaming == InitNaming /\ [][NameOutput]_vars

\* shorten_filename is called with a file name: a stem of one-byte or of
\* three-byte characters and an extension
StemLens == {0, 1, 82, 83, 84, 246, 247, 248, MaxStem}

Extensions == {TsPart, <<>>, <<".", "t", "s">>, <<".">> \o Rep("y", MaxExt)}

InitShorten ==
    /\ RecorderIdle
    /\ manager = NoManager
    /\ readers = NoReaders
    /\ \E c \in {"a", "K"}, n \in StemLens, e \in Extensions :
         out_file = [pc |-> "call", arg |-> Rep(c, n) \o e, ret |-> <<>>]

SpecShorten == InitShorten /\ [][ShortenFilename]_vars

\* The read_stream tasks of the channels' sessions, which complete up to
\* MaxCycles progress cycles while the clock advances; the recorder is left
\* out
TotalSizes == {MissingSize, BadSize, 1024, 3072}

OutTimes ==
    {NoMatch, TimeText(0, 0, 0, <<0, 0>>), TimeText(0, 0, 2, <<0, 0>>),
     TimeText(0, 0, 2, <<0, 5>>), TimeText(0, 1, 0, <<5, 0>>)}

InitProgress ==
    /\ RecorderIdle
    /\ manager = NoManager
    /\ out_file = NoFile
    /\ readers = [pc |-> "run", now |-> 0, cycles |-> 0, speed_samples |-> <<>>,
                  r |-> [c \in Chan |-> ReaderOff]]

NextProgress ==
    \/ ClockTick
    \/ \E c \in Chan :
         \/ StartReader(c)
         \/ EndReader(c)
         \/ \E ts \in TotalSizes, ot \in OutTimes : ProgressCycle(c, ts, ot)

SpecProgress == InitProgress /\ [][NextProgress]_vars

\* parse_time is called with a text that time_pattern does not match, or
\* with a time whose fraction has up to MaxFrac digits
Fractions == UNION {[1..n -> {0, 5}] : n \in 1..MaxFrac}

TimeTexts ==
    {NoMatch} \cup {TimeText(h, m, s, f) : h \in {0, 1}, m \in {0, 59}, s \in {0, 2, 59},
                                           f \in Fractions}

InitParseTime ==
    /\ RecorderIdle
    /\ manager = NoManager
    /\ out_file = NoFile
    /\ \E t \in TimeTexts : readers = [pc |-> "call", arg |-> t, ret |-> <<0, 1>>]

SpecParseTime == InitParseTime /\ [][ParseTime]_vars

\* manage_recording_tasks runs its passes over a list of up to MaxRecords
\* records, with no task at the start; the tasks themselves are left out
ListRecords ==
    {[has_id |-> TRUE, id |-> v, active |-> a] :
       v \in {JNull, JStr(""), JStr("A"), JStr("B")}, a \in {"on", "off"}}
      \cup {[has_id |-> FALSE, id |-> JNull, active |-> a] : a \in {"on", "off"}}

ChannelLists == UNION {[1..n -> ListRecords] : n \in 0..MaxRecords}

InitList ==
    /\ RecorderIdle
    /\ out_file = NoFile
    /\ readers = NoReaders
    /\ \E chs \in ChannelLists :
         manager = [pc |-> "load", new_channels |-> chs, before |-> {}, keys |-> {},
                    started |-> <<>>, cancelled |-> {}, warnings |-> 0]

NextList == ListPass \/ ListTimeout

SpecList == InitList /\ [][NextList]_vars

\* One channel records up to MaxSessions sessions while the clock runs from
\* second 0 to MaxClock; the channel's name has no special character
InitSessions ==
    /\ RecorderIdle
    /\ manager = NoManager
    /\ readers = NoReaders
    /\ out_file = [pc |-> "poll", now |-> 0, n |-> 0, channel_name |-> <<"c">>,
                   liveTitle |-> <<>>, temp |-> <<>>, final |-> <<>>,
                   disk |-> {}, wrote |-> {}, finals |-> {}]

NextSessions ==
    SessionTick \/ SessionStart \/ FfmpegOpensOutput \/ SessionFinalize \/ SessionFails

SpecSessions == InitSessions /\ [][NextSessions]_vars

\* display_progress runs beside the manager and the task of channel B,
\* which broadcasts on and off; channels.json is edited
InitLock ==
    /\ shutdown_event = FALSE
    /\ channels = [c \in Chan |-> IF c \in Broadcasting
                                  THEN [present |-> TRUE, active |-> "on", name |-> 0]
                                  ELSE Absent]
    /\ active_tasks = [c \in Chan |-> NoTask]
    /\ tasks = <<>>
    /\ channel_progress = [c \in Chan |-> NoEntry]
    /\ mpc = "top"
    /\ fds = [f \in Fds |-> NoTask]
    /\ channels_ok = TRUE
    /\ worker = IdleWorker
    /\ stream = NoStream
    /\ manager = NoManager
    /\ readers = NoReaders
    /\ out_file = NoFile
    /\ channel_progress_lock = Free
    /\ display = [pc |-> "start", shown |-> {}]
    /\ api_answers = [c \in Chan |-> IF c \in Broadcasting THEN {"OPEN", "CLOSE"}
                                                        ELSE {"CLOSE"}]

NextLock == NextListed \/ DisplayRead \/ DisplayLogsTimeout \/ DisplayEnd

SpecLock == InitLock /\ [][NextLock]_vars

\* The event loop runs every ready callback: a task whose await has
\* completed, or into which CancelledError is to be thrown, is resumed; the
\* manager is resumed when load_settings returned or the event it waits for
\* is set.  The operating system ends a process that was sent SIGKILL.
\* Nothing is assumed of timers, of the network, of a process that was not
\* killed, or of the spawn of a process.
TaskWakes(t) ==
    \/ DeliverCancel(t)
    \/ PollWaitShutdown(t) \/ EpWaitShutdown(t)
    \/ KillOldSDone(t) \/ KillOldFDone(t)
    \/ WaitWake(t) \/ ShutFDone(t) \/ ShutSDone(t) \/ StreamWaitDone(t)
    \/ FinSDone(t) \/ FinFDone(t)

MgrWakes == MgrTop \/ MgrPass \/ MgrShutdown \/ MgrGather

Fairness ==
    /\ WF_vars(MgrWakes)
    /\ \A t \in 1..MaxTasks :
         /\ WF_vars(TaskWakes(t))
         /\ WF_vars(StreamlinkReaped(t))
         /\ WF_vars(FfmpegReaped(t))

FairSpec == SpecListed /\ Fairness

\* Runs in which B broadcasts all the time (every poll of B is answered
\* OPEN) and A never does; A stays listed and switched on, the record of B
\* is edited
InitOpen ==
    /\ shutdown_event = FALSE
    /\ channels \in [Chan -> {r \in ChannelRecords : r.name = 0}]
    /\ \A c \in Chan \ Broadcasting :
         channels[c] = [present |-> TRUE, active |-> "on", name |-> 0]
    /\ Cardinality(ToStart(channels, [c \in Chan |-> NoTask])) <= MaxTasks
    /\ active_tasks = [c \in Chan |-> NoTask]
    /\ tasks = <<>>
    /\ channel_progress = [c \in Chan |-> NoEntry]
    /\ mpc = "top"
    /\ fds = [f \in Fds |-> NoTask]
    /\ channels_ok = TRUE
    /\ worker = IdleWorker
    /\ stream = NoStream
    /\ display = NoDisplay
    /\ channel_progress_lock = Free
    /\ manager = NoManager
    /\ readers = NoReaders
    /\ out_file = NoFile
    /\ api_answers = [c \in Chan |-> IF c \in Broadcasting THEN {"OPEN"} ELSE {"CLOSE"}]

\* Besides the wake-ups of Fairness: the timeout of wait_for (lines 599-603,
\* 799-802) expires, and the request of get_live_info ends, with an answer
\* or with the error of the session's timeout
TimersAndPolls ==
    \A t \in 1..MaxTasks :
      /\ WF_vars(PollWaitTimeout(t))
      /\ WF_vars(EpWaitTimeout(t))
      /\ WF_vars(Poll(t))

FairOpen == InitOpen /\ [][NextListed]_vars /\ Fairness /\ TimersAndPolls

\* ------------------------------------------------------------------ claims
\* a task holds a subprocess whose returncode is None
LiveProcs(t) == tasks[t].sp \in Live \/ tasks[t].fp \in Live

TasksOf(c) == {t \in TaskIds : tasks[t].ch = c}

\* C1 as stated: in every reachable state each channel id has at most one
\* task with a live downloader/remuxer pair
C1_OneSessionPerChannel ==
    \A c \in Chan : Cardinality({t \in TasksOf(c) : LiveProcs(t)}) <= 1

\* C2 as stated: channel_progress holds an entry for a channel exactly when
\* a session of that channel is active (pipeline spawned and not yet ended)
C2_EntryIffSession ==
    \A c \in Chan :
      (channel_progress[c] # NoEntry) <=> (\E t \in TasksOf(c) : tasks[t].sess)

\* C3 as stated: a finished record_stream task has no subprocess left whose
\* returncode is None
C3_NoOrphanProcess ==
    \A t \in TaskIds : Done(t) => tasks[t].sp = "off" /\ tasks[t].fp = "off"

\* C4 as stated: when manage_recording_tasks has returned, every task it
\* ever started is finished
C4_AllTasksDoneAtReturn ==
    mpc = "done" => \A t \in TaskIds : Done(t)

\* the awaits the claim lists: a task is cancelled at one of them
CancelPoints == {"delay", "epwait"} \cup InnerAwaits

\* C10 as stated: when a task ends that was cancelled at one of its
\* suspension points outside the finally block, both its subprocesses are
\* dead, its channel has no snapshot entry, and no temporary output file is
\* left unrenamed
C10_CancelledTaskCleansUp ==
    [][\A t \in TaskIds :
         (/\ ~Done(t) /\ tasks'[t].pc = "done" /\ tasks'[t].cancel = "thrown"
          /\ tasks[t].cancel = "thrown" \/ tasks[t].pc \in CancelPoints)
           => /\ tasks'[t].sp = "off"
              /\ tasks'[t].fp = "off"
              /\ channel_progress'[tasks[t].ch] = NoEntry
              /\ tasks'[t].file # "part"]_vars

\* the step of the manager that carries out one reconciliation pass
PassStep == mpc = "load" /\ mpc' = "wait"

\* the ids of the freshly loaded list whose active flag is "on"
DesiredOn == {c \in Chan : channels[c].present /\ channels[c].active = "on"}

\* the ids with a task that has not finished
RunningIds(ts) == {ts[t].ch : t \in {u \in 1..Len(ts) : ts[u].pc # "done"}}

C7_Witness ==
    /\ mpc = "wait"
    /\ Len(tasks) = 2
    /\ active_tasks["A"] # NoTask /\ active_tasks["B"] # NoTask
    /\ \A t \in TaskIds : tasks[t].pc = "delay"

C8_RunningTaskUntouched ==
    [][PassStep =>
         \A c \in DesiredOn :
           active_tasks[c] # NoTask =>
             /\ active_tasks'[c] = active_tasks[c]
             /\ tasks'[active_tasks[c]] = tasks[active_tasks[c]]]_vars

\* C8 witness: a pass has run over a channel whose record no longer has the
\* name its unfinished, uncancelled task was started with (records change
\* only before a pass)
C8_Witness ==
    /\ mpc = "wait"
    /\ \E c \in Chan :
         /\ active_tasks[c] # NoTask
         /\ tasks[active_tasks[c]].pc \notin {"done", "delay"}
         /\ tasks[active_tasks[c]].cancel = "no"
         /\ channels[c].present /\ channels[c].active = "on"
         /\ tasks[active_tasks[c]].name # channels[c].name

\* C9: a pass over a list without channel c, or with c switched off, while
\* c's task is unfinished requests the task's cancellation and leaves no
\* entry for c; it keeps the task of every channel still switched on; and
\* whenever an entry appears for a channel, the task that owns it has not
\* been cancelled
C9_CancelledChannelStaysGone ==
    [][/\ PassStep =>
            \A c \in Chan :
              active_tasks[c] # NoTask =>
                IF c \in DesiredOn
                THEN active_tasks'[c] = active_tasks[c]
                ELSE /\ ~Done(active_tasks[c])
                          => tasks'[active_tasks[c]].cancel = "req"
                     /\ active_tasks'[c] = NoTask
                     /\ channel_progress'[c] = NoEntry
       /\ \A c \in Chan :
            (channel_progress[c] = NoEntry /\ channel_progress'[c] # NoEntry)
              => /\ tasks[channel_progress'[c].owner].cancel = "no"
                 /\ tasks[channel_progress'[c].owner].ch = c]_vars

\* C9 witness: B's task was cancelled by a pass while its pipeline ran, B has
\* no entry, the reader of the cancelled task is still running, and A's
\* task is tracked
C9_Witness ==
    /\ mpc = "wait"
    /\ active_tasks["B"] = NoTask /\ active_tasks["A"] # NoTask
    /\ channel_progress["B"] = NoEntry
    /\ \E t \in TaskIds :
         /\ tasks[t].ch = "B" /\ tasks[t].cancel = "thrown"
         /\ tasks[t].rd = "run" /\ tasks[t].pc = "fin_s"

\* C5: once the shutdown flag is set, manage_recording_tasks returns and
\* every task ends, under the fairness of FairSpec, which lets no timer
\* expire and no unkilled process exit
C5_ShutdownTerminates ==
    shutdown_event ~> (mpc = "done" /\ \A t \in TaskIds : Done(t))

\* C5 witness: the flag is set, the manager has left its loop, and a task
\* is still blocked waiting on the remuxer with both processes running
C5_Witness ==
    /\ shutdown_event /\ mpc = "gather"
    /\ \E t \in TaskIds :
         tasks[t].pc = "wait" /\ tasks[t].sp = "run" /\ tasks[t].fp = "run"

StepOf(t) ==
    /\ mpc' = mpc /\ active_tasks' = active_tasks
    /\ tasks'[t] # tasks[t] \/ (tasks' = tasks /\ channel_progress' # channel_progress
                                 /\ channel_progress'[tasks[t].ch].writer = t)

\* C16 as stated: a step of one channel's task (its polls, spawns,
\* subprocess exits, renames, exceptions, cancellation) leaves the task of
\* every other channel, that task's subprocesses, its open pipe
\* descriptors and its snapshot entry as they were, and does not end the
\* reconciliation loop
C16_ChannelsIndependent ==
    [][\A t \in TaskIds : StepOf(t) =>
         \A u \in TaskIds : tasks[u].ch # tasks[t].ch =>
             /\ tasks'[u] = tasks[u]
             /\ channel_progress'[tasks[u].ch] = channel_progress[tasks[u].ch]
             /\ \A f \in Fds : fds[f] = u => fds'[f] = u]_vars

\* C11 as stated: when a step of record_stream starts to force-kill a
\* session whose two subprocesses are both running, in the shutdown branch
\* after the wait or in the cleanup after a cancellation, it kills ffmpeg,
\* leaves streamlink for later and suspends awaiting ffmpeg's exit
C11_RemuxerKilledFirst ==
    [][\A t \in TaskIds :
         (/\ tasks[t].sp = "run" /\ tasks[t].fp = "run"
          /\ tasks[t].pc = "wait"
          /\ tasks'[t].sp = "killed" \/ tasks'[t].fp = "killed")
           => /\ tasks'[t].fp = "killed" /\ tasks'[t].sp = "run"
              /\ tasks'[t].pc \in {"shut_f", "fin_f"}]_vars

\* a step in which task t is resumed from its await of get_live_info
PollStep(t) ==
    /\ tasks[t].pc = "poll" /\ tasks'[t].pc # "poll"
    /\ tasks[t].cancel = "no" /\ tasks'[t].cancel = "no"

\* the task is as before the poll but for the status and the wait it is in
BackToWait(t) ==
    tasks'[t] = [tasks[t] EXCEPT !.pc = "pollwait", !.status = tasks'[t].status]

\* C12: a task that kills old processes or spawns new ones holds the status
\* OPEN from its latest poll; a poll that returned BLOCK, CLOSE or the empty
\* status of a failed poll changes nothing but puts the task into the wait
\* of the poll interval, from which it goes on to the next poll unless it
\* is cancelled or the shutdown flag is set
C12_SpawnOnlyAfterOpen ==
    /\ [](\A t \in TaskIds :
            tasks[t].pc \in {"kill_s", "kill_f", "spawn_s", "spawn_f"}
              => tasks[t].status = "OPEN")
    /\ [][\A t \in TaskIds :
            /\ (PollStep(t) /\ tasks'[t].status \in {"BLOCK", "CLOSE", ""})
                 => BackToWait(t)
            /\ (/\ tasks[t].pc = "pollwait" /\ tasks'[t].pc # "pollwait"
                /\ tasks'[t].cancel = "no" /\ ~shutdown_event)
                 => tasks'[t].pc = "poll" /\ tasks'[t].sp = tasks[t].sp
                    /\ tasks'[t].fp = tasks[t].fp]_vars

\* C12 witness: after a poll that returned OPEN the task has spawned
\* streamlink and is spawning ffmpeg
C12_Witness ==
    \E t \in TaskIds :
      tasks[t].pc = "spawn_f" /\ tasks[t].status = "OPEN" /\ tasks[t].sp = "run"

\* C18: get_live_info returns the empty status and no manifest for a
\* transport failure, an HTTP error status and a malformed body, and BLOCK
\* and no manifest for a BLOCK answer, and raises in none of these cases;
\* the caller is then in the wait of the poll interval with nothing else
\* of the task changed (a poll that returned OPEN while the shutdown flag
\* is set ends the task and is not such a case)
C18_FailedPollIsNotLive ==
    /\ \A resp \in {"transport_error", "http_error", "malformed"} :
         get_live_info(resp) = [raised |-> FALSE, status |-> "", manifest |-> FALSE]
    /\ get_live_info("BLOCK") = [raised |-> FALSE, status |-> "BLOCK", manifest |-> FALSE]
    /\ [][\A t \in TaskIds :
            (/\ PollStep(t) /\ tasks'[t].status # "OPEN"
             /\ ~shutdown_event \/ tasks'[t].status # "none")
              => /\ tasks'[t].status \in
                      {get_live_info(resp).status : resp \in Responses(tasks[t].ch)}
                 /\ BackToWait(t)]_vars

\* C18 witness: a task whose poll failed waits for the poll interval, its
\* status empty
C18_Witness ==
    \E t \in TaskIds :
      tasks[t].pc = "pollwait" /\ tasks[t].status = "" /\ tasks[t].cancel = "no"

\* C19 as stated: after a poll whose answer has a status that is neither
\* BLOCK nor CLOSE and carries a manifest, the task is no longer waiting for
\* the channel to go live (unless the shutdown flag is set)
C19_ManifestMeansOpen ==
    [][\A t \in TaskIds :
         (/\ PollStep(t) /\ ~shutdown_event
          /\ \E resp \in Responses(tasks[t].ch) :
               /\ get_live_info(resp).status = tasks'[t].status
               /\ get_live_info(resp).status \notin {"BLOCK", "CLOSE"}
               /\ get_live_info(resp).manifest)
           => tasks'[t].pc # "pollwait"]_vars

\* the awaits between a poll that returned OPEN and the wait on the pipeline
Preparing == {"kill_s", "kill_f", "spawn_s", "spawn_f"}

\* C14: a task that is not cancelled leaves the preparation of a session
\* (the directory, the kills of old processes, the pipe, the two spawns)
\* either into the wait on the running pipeline or, on a failure, into the
\* wait of the poll interval with no session and recording_started reset;
\* when that wait expires without shutdown the task polls again
C14_PrepareFailureIsCaught ==
    [][\A t \in TaskIds :
         /\ (/\ tasks'[t].cancel = "no" /\ tasks'[t] # tasks[t]
             /\ \/ tasks[t].pc \in Preparing
                \/ PollStep(t) /\ tasks'[t].status = "OPEN" /\ ~shutdown_event)
              => \/ tasks'[t].pc \in Preparing \cup {"wait"}
                 \/ /\ tasks'[t].pc = "epwait"
                    /\ ~tasks'[t].sess /\ ~tasks'[t].rs
                    /\ channel_progress' = channel_progress
         /\ (/\ tasks[t].pc = "epwait" /\ tasks'[t].pc # "epwait"
             /\ tasks'[t].cancel = "no" /\ ~shutdown_event)
              => tasks'[t] = AwaitPoll(tasks[t])]_vars

\* C14 witness: the spawn of ffmpeg failed after streamlink was started; the
\* task waits for the poll interval
C14_Witness ==
    \E t \in TaskIds :
      /\ tasks[t].pc = "epwait" /\ tasks[t].cancel = "no"
      /\ tasks[t].status = "OPEN" /\ tasks[t].sp = "run" /\ tasks[t].fp = "off"
      /\ channel_progress[tasks[t].ch] = NoEntry

\* a step of task t in which the rename of line 767 raised: the session is
\* over, the temporary file is still there
FinalizeRenameFailed(t) ==
    /\ tasks[t].pc \in {"wait", "swait"} /\ tasks'[t].pc = "epwait"
    /\ tasks[t].file = "part" /\ tasks'[t].file = "part"

\* a step of task t in which the rename of line 813 raised
CleanupRenameFailed(t) ==
    /\ tasks[t].pc # "done" /\ tasks'[t].pc = "done"
    /\ ~(tasks[t].cancel = "req" /\ tasks[t].pc \in {"delay", "fin_s", "fin_f"})
    /\ tasks[t].rs /\ tasks[t].file = "part" /\ tasks'[t].file = "part"

\* C15 as stated: after a failed rename the channel has no snapshot entry,
\* and a task that failed to rename after a normal end of the pipeline is
\* waiting for the next poll
C15_RenameFailureIsContained ==
    [][\A t \in TaskIds :
         /\ FinalizeRenameFailed(t)
              => channel_progress'[tasks[t].ch] = NoEntry
         /\ CleanupRenameFailed(t)
              => channel_progress'[tasks[t].ch] = NoEntry]_vars

\* C17 as stated: a pass of manage_recording_tasks whose load of
\* channels.json failed does not reconcile against a substituted list: it
\* cancels no task, forgets none, and the loop is left
C17_LoadFailureStopsLoop ==
    [][(mpc = "load" /\ mpc' # "load" /\ ~channels_ok)
         => /\ mpc' \in {"gather", "done"}
            /\ active_tasks' = active_tasks]_vars

\* both processes of the task's pipeline have exited and the task has not
\* yet finalized the episode
PipelineEnded(t) ==
    /\ tasks[t].pc \in {"wait", "swait"}
    /\ tasks[t].sp = "off" /\ tasks[t].fp = "off"

\* task t is cancelled or the recorder shuts down
Stopping(t) == tasks[t].cancel # "no" \/ shutdown_event

\* C13: a task that waits on its pipeline and is neither cancelled nor shut
\* down leaves that wait only to await streamlink's exit or, the episode
\* finalized, to wait for the poll interval: it does not end.  Once both
\* processes have exited (the returncode is only compared with None, so
\* with any exit codes) the task polls the channel again, and a task that
\* polls a channel that is still OPEN leaves the poll loop to prepare a
\* session, unless it is cancelled or the recorder shuts down
C13_PipelineEndReturnsToPolling ==
    /\ [][\A t \in TaskIds :
            (/\ tasks[t].pc \in {"wait", "swait"} /\ tasks'[t].pc # tasks[t].pc
             /\ tasks'[t].cancel = "no" /\ ~shutdown_event)
              => /\ tasks'[t].pc \in {"swait", "epwait"}
                 /\ tasks'[t].pc = "epwait" => ~tasks'[t].sess]_vars
    /\ \A t \in 1..MaxTasks :
         (t \in TaskIds /\ PipelineEnded(t))
           ~> (t \in TaskIds /\ (tasks[t].pc = "poll" \/ Stopping(t)))
    /\ \A t \in 1..MaxTasks :
         (t \in TaskIds /\ tasks[t].pc = "poll" /\ Responses(tasks[t].ch) = {"OPEN"})
           ~> (t \in TaskIds /\ (\/ tasks[t].status = "OPEN" /\ tasks[t].pc # "poll"
                                 \/ Stopping(t)))

\* C13 witness: the pipeline ended, the recording got its final name and the
\* entry is gone; the task is alive and waits for the poll interval
C13_Witness ==
    \E t \in TaskIds :
      /\ tasks[t].pc = "epwait" /\ ~Stopping(t)
      /\ tasks[t].sp = "off" /\ tasks[t].fp = "off" /\ tasks[t].file = "final"
      /\ channel_progress[tasks[t].ch] = NoEntry

\* what the current call of _fetch_playlist has done so far
Fetches == Len(SelectSeq(worker.hist, LAMBDA e : e[1] = "fetch"))
Refreshes == Len(SelectSeq(worker.hist, LAMBDA e : e[1] = "refresh"))

\* C20 as stated: a call of _fetch_playlist whose fetches failed with 4xx
\* only has fetched the playlist at most twice and has run refresh_playlist
\* at most once
C20_OneRefreshPerCall ==
    (\A i \in 1..Len(worker.hist) :
       worker.hist[i][1] = "fetch" => worker.hist[i][2] \in {"ok", "4xx"})
      => Fetches <= 2 /\ Refreshes <= 1

\* C21 as stated: in a call of _fetch_playlist nothing follows a fetch that
\* failed with a 5xx status or with no HTTP response: no refresh_playlist
\* and no further fetch
C21_OnlyClientErrorsRefresh ==
    \A i \in 1..Len(worker.hist) :
      (worker.hist[i][1] = "fetch" /\ worker.hist[i][2] \in {"5xx", "no_response"})
        => i = Len(worker.hist)

\* C22 as stated: with the expiry 10800 s or more ahead no refresh is due,
\* and with the expiry not ahead a refresh is due
C22_RefreshWindow ==
    (stream.pc # "none" /\ stream.expire # None)
      => /\ stream.expire - stream.now >= 10800
              => ~should_refresh(stream.now, stream.expire)
         /\ stream.expire - stream.now <= 0
              => should_refresh(stream.now, stream.expire)

\* C22, amended: no refresh is due while the expiry is more than 10800 s
\* ahead, and a refresh is due from the deadline expiry - 10800 on (so also
\* when the expiry is not ahead); a read of the url property starts a
\* refresh exactly when one is due
C22_RefreshFromDeadline ==
    /\ []((stream.pc # "none" /\ stream.expire # None)
            => /\ stream.expire - stream.now > 10800
                    => ~should_refresh(stream.now, stream.expire)
               /\ stream.expire - stream.now <= 10800
                    => should_refresh(stream.now, stream.expire))
    /\ [][(stream.pc = "idle" /\ stream'.pc # "idle")
            => /\ stream'.pc = "resolve"
               /\ stream.expire # None /\ stream.expire - stream.now <= 10800]_vars
    /\ [][(stream.pc = "idle" /\ stream'.pc = "idle" /\ stream'.got # stream.got)
            => (stream.expire = None \/ stream.expire - stream.now > 10800)]_vars

\* C22 witness: a read of the url property has started a refresh with the
\* expiry exactly 10800 s ahead
C22_Witness ==
    /\ stream.pc = "resolve"
    /\ stream.expire # None /\ stream.expire - stream.now = 10800

\* two query strings with the same parameters in the same order and the
\* same bytes, but for the values of hdnts
SameButToken(a, b) ==
    /\ Len(a) = Len(b)
    /\ \A i \in 1..Len(a) :
         /\ a[i][1] = b[i][1]
         /\ a[i][1] # "hdnts" => a[i][2] = b[i][2]

\* C23 as stated: _replace_token changes a URL that carries a token at most
\* in the value of hdnts
C23_OnlyTokenChanges ==
    [][(/\ stream.pc = "replace" /\ stream'.pc = "expire"
        /\ \E i \in 1..Len(stream.url) : stream.url[i][1] = "hdnts")
         => SameButToken(stream.url, stream'.url)]_vars

\* the URL from before the refresh in progress (or the last one), and the
\* URL that refresh assigns
CompleteUrls == {stream.old, replace_token(stream.old, stream.new)}

\* C24: at every moment _url is either the complete URL from before the
\* refresh or the complete URL the refresh assigns, and that is what a
\* thread reading it while the refresh runs observes
C24_UrlReplacedAtomically ==
    /\ [](stream.pc # "none" => stream.url \in CompleteUrls)
    /\ [][(stream.pc # "none" /\ stream'.seen # stream.seen)
            => stream'.seen \in CompleteUrls]_vars

\* C24 witness: while refresh_playlist is between the assignments of _url
\* and _expire, the reading thread has observed the new URL
C24_Witness ==
    /\ stream.pc = "expire"
    /\ stream.seen = stream.url /\ stream.url # stream.old

\* C25 as stated: the names of the temporary and of the final file hold no
\* character of \ / : * ? " < > |
C25_NoSpecialCharsInNames ==
    out_file.pc = "named"
      => /\ \A i \in 1..Len(out_file.temp) : out_file.temp[i] \notin SpecialChars
         /\ \A i \in 1..Len(out_file.final) : out_file.final[i] \notin SpecialChars

Elapsed(time_str) ==
    IF ~time_str.match THEN <<0, 1>>
    ELSE LET scale == Pow10(Len(time_str.frac))
         IN <<(time_str.h * 3600 + time_str.m * 60 + time_str.s) * scale
                + DigitsValue(time_str.frac), scale>>

\* C27 as stated: after a progress cycle the published bitrate is
\* total_size * 8 / elapsed time of out_time when that time is greater than
\* zero, and not available when it is zero or out_time is missing or no time
C27_BitrateIsSizeOverElapsed ==
    readers.pc = "run" =>
      \A c \in Chan :
        (readers.r[c].on /\ readers.r[c].prev_total_size # None)
          => readers.r[c].bitrate =
               bitrate_formatted(readers.r[c].prev_total_size, Elapsed(readers.r[c].out_time))

\* the last n elements of a sequence, all of them when it has fewer
LastN(s, n) == IF Len(s) <= n THEN s ELSE SubSeq(s, Len(s) - n + 1, Len(s))

\* C28 as stated: a published download speed is the mean of the last (at
\* most five) instantaneous speeds that the same channel's read_stream
\* computed in its current session
C28_SpeedIsOwnMovingAverage ==
    readers.pc = "run" =>
      \A c \in Chan :
        (readers.r[c].on /\ readers.r[c].download_speed # NA)
          => readers.r[c].download_speed =
               [format_size(Average(LastN(readers.r[c].session, MaxSamples)))
                  EXCEPT !.per = "/s"]

\* C29: a task holds an end of a pipe it created only while it is suspended
\* in one of the two spawns: the step that follows the spawn of streamlink
\* closes the write end, the step that follows the spawn of ffmpeg closes
\* the read end, and a task that left the setup on any path (spawn failure,
\* cancellation during a spawn, both spawns done) holds no descriptor of
\* its pipe
C29_NoPipeEndHeldAfterSetup ==
    /\ [](\A t \in TaskIds :
            tasks[t].pc \notin {"spawn_s", "spawn_f"} => \A f \in Fds : fds[f] # t)
    /\ [][\A t \in TaskIds :
            /\ (tasks[t].pc = "spawn_s" /\ tasks'[t].pc = "spawn_f")
                 => fds'[tasks[t].wp] = NoTask
            /\ (tasks[t].pc = "spawn_f" /\ tasks'[t].pc = "wait")
                 => fds'[tasks[t].rp] = NoTask /\ fds'[tasks[t].wp] # t]_vars

\* both spawns of a task succeeded, its two processes run and it holds no
\* end of its pipe, while another task is in its setup and holds its own
C29_Witness ==
    \E t \in TaskIds, u \in TaskIds :
      /\ tasks[t].pc = "wait" /\ tasks[t].sp = "run" /\ tasks[t].fp = "run"
      /\ \A f \in Fds : fds[f] # t
      /\ tasks[u].pc = "spawn_f" /\ \E f \in Fds : fds[f] = u

\* C30 as stated, the order of events: when streamlink has exited and the
\* task, without shutdown or cancellation, leaves the wait of line 738 to
\* finalize the session, ffmpeg has exited before
C30_RemuxerExitsBeforeFinalize ==
    [][\A t \in TaskIds :
         (/\ tasks[t].pc = "wait" /\ tasks'[t].pc # "wait"
          /\ tasks[t].sp = "off"
          /\ ~shutdown_event
          /\ tasks'[t].cancel = "no")
           => tasks[t].fp = "off"]_vars

\* C33 as stated: parse_time returns hours * 3600 + minutes * 60 + seconds
\* + F / 10 ^ (number of digits of F) for a time with the fraction digits F,
\* and 0 for a text that is no time
C33_ParseTimeIsDecimal ==
    readers.pc = "ret" =>
      readers.ret[1] * Elapsed(readers.arg)[2] = Elapsed(readers.arg)[1] * readers.ret[2]

\* C35 as stated: the step that ends a successful refresh_playlist stores
\* the expiry of the freshly resolved URL, and when that expiry is more than
\* 10800 s ahead no refresh is due at the next read of the url property
C35_ExpiryOfResolvedUrl ==
    [][(stream.pc = "expire" /\ stream'.pc = "idle")
         => /\ stream'.expire = get_expire_time(stream.new)
            /\ get_expire_time(stream.new) - stream.now > 10800
                 => ~should_refresh(stream'.now, stream'.expire)]_vars

\* C36: the step in which refresh_playlist raises StreamError, for each of
\* its five reasons, leaves _url and _expire as they were, and after it the
\* URL is still the one the url property found when it started the refresh
C36_FailedRefreshAssignsNothing ==
    /\ [][(stream.pc = "resolve" /\ stream'.pc = "idle")
            => /\ stream'.err \in StreamErrors
               /\ stream'.url = stream.url
               /\ stream'.expire = stream.expire]_vars
    /\ []((stream.pc = "idle" /\ stream.err \in StreamErrors)
            => stream.url = stream.old /\ stream.expire = get_expire_time(stream.old))

\* C36 witness: refresh_playlist has raised for want of a variant with stream
\* info, on a stream with a token and an expiry
C36_Witness ==
    /\ stream.pc = "idle" /\ stream.err = "no_variant"
    /\ stream.expire # None
    /\ DictGet(parse_qs(stream.url), "hdnts") # <<>>

\* C37 as stated: a step of record_stream's finalize path (lines 753-772,
\* the task goes on to the wait between episodes) that renames the temporary
\* file or pops the snapshot entry finds both streamlink and ffmpeg exited
C37_FinalizeAfterBothExited ==
    [][\A t \in TaskIds :
         (/\ tasks'[t].pc = "epwait" /\ tasks[t].pc \in {"wait", "swait"}
          /\ \/ tasks[t].file = "part" /\ tasks'[t].file = "final"
             \/ /\ channel_progress[tasks[t].ch] # NoEntry
                /\ channel_progress'[tasks[t].ch] = NoEntry)
           => tasks[t].sp = "off" /\ tasks[t].fp = "off"]_vars

\* C38 as stated: while a channel task polls for the live status (line 589)
\* or sleeps for the poll interval (lines 599-603), neither streamlink nor
\* ffmpeg of that channel is running
C38_NoSubprocessWhileWaitingLive ==
    \A t \in TaskIds :
      tasks[t].pc \in {"poll", "pollwait"}
        => tasks[t].sp \notin Live /\ tasks[t].fp \notin Live

\* C39: a key is added to channel_progress only by the step of record_stream
\* that follows the spawn of ffmpeg (lines 723-731), for the task's own
\* channel; a step of read_stream leaves the keys of the table as they are
C39_OnlyRecordStreamCreatesEntries ==
    [][\A c \in Chan :
         (channel_progress[c] = NoEntry /\ channel_progress'[c] # NoEntry)
           => \E t \in TaskIds :
                /\ tasks[t].ch = c
                /\ tasks[t].pc = "spawn_f" /\ tasks'[t].pc = "wait"
                /\ channel_progress'[c].owner = t]_vars

\* C39 witness: read_stream of a session is still reading progress lines and
\* the entry of its channel has been removed
C39_Witness ==
    \E t \in TaskIds :
      /\ tasks[t].rd = "run" /\ tasks[t].fp = "run"
      /\ channel_progress[tasks[t].ch] = NoEntry

\* C40 as stated: a descriptor that a task's os.pipe() opened is closed only
\* by a step of that task; the os.close calls of another task (lines 680,
\* 720 and 776-779) never hit it
C40_PipeEndsClosedByOwnerOnly ==
    [][\A f \in Fds :
         (fds[f] # NoTask /\ fds'[f] = NoTask)
           => tasks'[fds[f]].pc # tasks[fds[f]].pc]_vars

\* a record without an id: the key is absent, or its value is null or ""
NoId(channel) == GetId(channel).type = "null" \/ GetId(channel).val = ""

\* C34 as stated: after a pass, no task was created for a record without an
\* id, every such record was warned about, and no key was added to
\* active_tasks but the ids of records that have one
C34_RecordWithoutIdIsSkipped ==
    manager.pc = "wait" =>
      LET chs == manager.new_channels IN
      /\ \A i \in 1..Len(chs) :
           NoId(chs[i]) => \A k \in 1..Len(manager.started) : manager.started[k] # i
      /\ manager.warnings = Cardinality({i \in 1..Len(chs) : NoId(chs[i])})
      /\ manager.keys \ manager.before
           \subseteq {GetId(chs[i]).val : i \in {j \in 1..Len(chs) : ~NoId(chs[j])}}

\* C32 as stated: the temporary and the final path of a session are paths
\* that no earlier session of the channel wrote or finalized, and a file
\* that a session finalized stays on disk with that session's content
C32_SessionsNeverShareAPath ==
    /\ out_file.pc \in {"spawn", "wait"}
         => \A f \in out_file.wrote \cup out_file.finals :
              f[2] < out_file.n => f[1] \notin {out_file.temp, out_file.final}
    /\ out_file.pc \in {"poll", "spawn", "wait"}
         => out_file.finals \subseteq out_file.disk

\* C31: at every suspension point of every task nobody holds
\* channel_progress_lock, so each step of record_stream, read_stream,
\* manage_recording_tasks and display_progress that reads or writes the
\* table enters the lock at once and has left it when the step ends,
\* whatever display_progress is waiting for
C31_LockNeverHeldAcrossAwait ==
    /\ [](channel_progress_lock = Free)
    /\ [][(channel_progress' # channel_progress \/ display'.shown # display.shown)
            => channel_progress_lock = Free /\ channel_progress_lock' = Free]_vars

\* C31 witness: display_progress has built the panel of a channel and waits
\* for a log message, while read_stream of that channel's session has
\* updated the entry and goes on reading
C31_Witness ==
    /\ display.pc = "logs" /\ channel_progress_lock = Free
    /\ \E t \in TaskIds :
         /\ tasks[t].ch \in display.shown
         /\ tasks[t].rd = "run"
         /\ channel_progress[tasks[t].ch].writer = t

====
